---- MODULE Spec2Model ----
(***************************************************************************)
(* Match settlement and payment reconciliation engine of chequemate:       *)
(*   - ChessComApiQueue      (services/ChessComApiQueue.js)                *)
(*   - PerMatchResultChecker (services/PerMatchResultChecker.js)           *)
(*   - PaymentService        (services/paymentService.js)                  *)
(*   - PaymentController.handleCallback (controllers/paymentController.js) *)
(*   - PaymentTimeoutChecker (services/paymentTimeoutChecker.js)           *)
(*                                                                         *)
(* Time is measured in whole minutes and kept relative: every deadline is  *)
(* stored as the number of minutes still to run, every timestamp as the    *)
(* number of minutes elapsed since.  Tick lets one minute pass.  Delays    *)
(* below one minute (the 200 ms queue pause, the adaptive request delay,   *)
(* the +1000 ms timer buffers, the latency of the API and of the database) *)
(* are separate steps that take no time: a minute passes only when none of *)
(* them is pending.  Calls from outside may arrive between any two steps.  *)
(* Money is counted in hundredths of a KES (DECIMAL(10,2)).                *)
(***************************************************************************)
EXTENDS Integers, Sequences, FiniteSets, TLC

Null == "null"
\* a timestamp that is null / a timer that is not set
NoTime == 0 - 1

Min(a, b) == IF a < b THEN a ELSE b
Max(a, b) == IF a > b THEN a ELSE b

(***************************************************************************)
(* Bounds of the model.                                                    *)
(***************************************************************************)
\* other clients of the API queue (UserStatsCache, aggregateController)
NumOthers == 2
\* calls of startCheckingMatch per match
MaxStarts == 2
\* deposits initiated for a challenge
MaxDeposits == 2
\* webhook callbacks received
MaxCallbacks == 3
MaxSweeps == 2
MaxSelected == 3
MaxPolled == 2
Spread == 20

Others == {100 + i : i \in 1..NumOthers}
\* one poll chain (timer -> check -> timer ...) per startCheckingMatch call
Chains == 1..MaxStarts
Callers == Chains \cup Others

Matches == {"m1"}
Users == {"u1", "u2"}
ChallengeIds == {"c1"}

(***************************************************************************)
(* Program constants                                                       *)
(***************************************************************************)
\* ChessComApiQueue.setRateLimit(durationMs = 5 * 60 * 1000), in minutes
RateLimitDurationApi == 5
\* ChessComApiQueue.cacheTTL, in minutes
TTLplayerStats == 15
TTLgameArchives == 30
TTLmonthlyGames == 5
\* PerMatchResultChecker
maxChecksPerMatch == 4
checkInterval == 2
rateLimitDuration == 5
\* calculateMatchDuration: default 300 seconds
DefaultDuration == 5
\* paymentService.initiateWithdrawal: MINIMUM_PAYOUT (KES)
MINIMUM_PAYOUT == 10
\* PerMatchResultChecker.handleNoResultFound: betAmount > 10
AutoRefundLimit == 10
\* PaymentTimeoutChecker
minWithdrawalAmount == 10
partialPaymentTimeout == 5
fullExpiryTimeout == 5

\* hundredths of a KES
KES(n) == n * 100

\* The URLs the model requests, by the class getCacheTTL() puts them in.
UrlStats == "stats"
UrlArchives == "archives"
UrlMonthly == "monthly"
\* aggregateController.fetchChessComRecentGames: a config without method
UrlRecent == "recent"
Urls == {UrlStats, UrlArchives, UrlMonthly, UrlRecent}

VARIABLES
    \* ---- ChessComApiQueue
    queue,              \* this.queue: items waiting, oldest first
    isProcessing,       \* this.isProcessing
    cur,                \* the item processQueue() has shifted and is working on
    procTimer,          \* setTimeout(() => this.processQueue(), 200) is pending
    rateLimitedUntil,   \* this.rateLimitedUntil: NoTime or minutes still to run
    cache,              \* this.cache: url -> entry [present, age, ttl, response]
    reqState,           \* the promise request() gave each caller
    sinceLastRequest,   \* now - this.lastRequestTime: 0 (under a minute) or 1
    since429,           \* minutes since the last 410/429 was received (observer)
    \* ---- PerMatchResultChecker
    chains,             \* the poll chains: pending timer or running check
    activeCheckers,     \* this.activeCheckers: matchId -> {timeoutId, checkCount}
    checkerLimitedUntil,\* this.rateLimitedUntil of the checker
    starts,             \* calls of startCheckingMatch so far, per match
    stopped,            \* manualStopCheck was called for the match (observer)
    \* ---- database
    ongoing_matches,    \* matchId -> row
    writes,             \* UPDATEs of the result columns of a match (observer)
    challenges,         \* challengeId -> row
    payments,           \* the payments table, in insertion order
    balance,            \* users.balance
    providerCalls,      \* provider requests issued: indices of payment rows
    emitted,            \* socket events emitted: how many of each to each user
    \* ---- PaymentController
    callbacks,          \* webhook callbacks handled so far (observer)
    lastCallback,       \* the last callback: payload and what it did (observer)
    \* ---- PaymentService
    payQueue,           \* this.queue: jobs waiting, oldest first
    processing,         \* this.processing
    running,            \* the jobs that runs of _processQueue() have shifted
    tokens,             \* tokens tokenManager.refreshToken() has handed out
    enqueued,           \* payment rows in the order of enqueueRequest (observer)
    issued,             \* provider requests in the order sent, with token (observer)
    returned,           \* what initiate.. returned for a row, once it did (observer)
    \* ---- ChessComApiQueue with cleanup()
    runs,               \* the runs of processQueue(): item, and where each stands
    requests,           \* items pushed on this.queue so far (observer)
    dispatched,         \* the items in the order this.api() was called (observer)
    cleanups,           \* calls of cleanup() so far (observer)
    \* ---- PaymentTimeoutChecker
    sweeps,             \* runs of checkExpiredPayments() so far, modulo 2 (observer)
    cycle,              \* a run of checkExpiredPayments() over several challenges
    outcome,            \* what that run did for each challenge it selected (observer)
    pollers,            \* activeCheckers of several matches: which are polled
    \* ---- callers of PaymentService
    lastCall,           \* the last call with unchecked arguments, and its answer (observer)
    \* ---- PaymentTimeoutChecker, statement by statement
    sweep,              \* processExpiredChallenge under way: what its SELECT found
    \* ---- ChessComApiQueue, adaptive timing
    timing,             \* this.requestDelay (ms), this.consecutiveSuccesses, last outcome
    \* ---- RequestQueue
    rq,                 \* one RequestQueue: queue, processing, completed, failed, ..
    webhook             \* the body extractRequestId was last given, and what it returned

apiVars == <<queue, isProcessing, cur, procTimer, rateLimitedUntil, cache,
             reqState, sinceLastRequest, since429>>
checkerVars == <<chains, activeCheckers, checkerLimitedUntil, starts, stopped>>
matchVars == <<ongoing_matches, writes>>
moneyVars == <<payments, balance, providerCalls>>
gatewayVars == <<payQueue, processing, running, tokens, enqueued, issued, returned>>
clientVars == <<runs, requests, dispatched, cleanups>>
sweepVars == <<sweeps, cycle, outcome, pollers>>
extraVars == <<lastCall, sweep, timing, rq, webhook>>
payVars == <<callbacks, lastCallback, gatewayVars, clientVars, sweepVars, extraVars>>
dbVars == <<ongoing_matches, writes, challenges, payments, balance,
            providerCalls, emitted, payVars>>
vars == <<apiVars, checkerVars, dbVars>>


(***************************************************************************)
(* ChessComApiQueue                                                        *)
(***************************************************************************)
NoItem == [caller |-> 0, key |-> Null, get |-> FALSE, phase |-> "none"]
Item(c, url, get) == [caller |-> c, key |-> url, get |-> get]
Shifted(item, phase) ==
    [caller |-> item.caller, key |-> item.key, get |-> item.get, phase |-> phase]
NoResp == [kind |-> Null, white |-> Null, wres |-> Null, bres |-> Null]
NoEntry == [present |-> FALSE, age |-> 0, ttl |-> 0, response |-> NoResp]

Resp(k) == [kind |-> k, white |-> Null, wres |-> Null, bres |-> Null]
\* a finished game between the two players: who played white, and the
\* result code chess.com gives each colour
Game(w, wr, br) == [kind |-> "game", white |-> w, wres |-> wr, bres |-> br]

\* getCacheTTL(url)
getCacheTTL(url) ==
    IF url = UrlStats THEN TTLplayerStats
    ELSE IF url = UrlArchives THEN TTLgameArchives
    ELSE IF url = UrlMonthly THEN TTLmonthlyGames
    ELSE TTLmonthlyGames

\* a check that lets requests through during the last minute of a pause
isRateLimitedApiEarly(until) == until # NoTime /\ until > 1

\* isRateLimited(): truthy while now < rateLimitedUntil
isRateLimitedApi(until) == until # NoTime /\ until > 0

\* isRateLimited() forgets a limit that has run out
ExpireLimit(until) == IF until = 0 THEN NoTime ELSE until

\* a cache test that never lets an entry expire
CacheHitAlways(entry) == entry.present

\* the cache test of request(): Date.now() - timestamp < ttl
CacheHit(entry) == entry.present /\ entry.age < entry.ttl

\* cleanCache(): now - timestamp > ttl
CacheStale(entry) == entry.present /\ entry.age > entry.ttl

Resolved(v, how) == [st |-> "resolved", val |-> v, why |-> how]
Rejected(how) == [st |-> "rejected", val |-> NoResp, why |-> how]
Idle == [st |-> "idle", val |-> NoResp, why |-> Null]
Waiting == [st |-> "waiting", val |-> NoResp, why |-> Null]

\* callers whose promise is still open
WaitingCallers == {c \in Callers : reqState[c].st = "waiting"}
\* callers whose item is in this.queue
QueuedCallers == {queue[i].caller : i \in 1..Len(queue)}

\* processQueue(), entered with queue q: empty -> stop; otherwise shift the
\* head and either sleep (the delay since the last request is not over)
\* or call the API at once.
ProcessQueueFrom(q) ==
    IF q = <<>>
    THEN /\ isProcessing' = FALSE
         /\ queue' = q
         /\ cur' = NoItem
         /\ UNCHANGED sinceLastRequest
    ELSE /\ isProcessing' = TRUE
         /\ queue' = Tail(q)
         /\ \/ /\ sinceLastRequest = 0      \* timeSinceLastRequest < requestDelay
               /\ cur' = Shifted(Head(q), "wait")
               /\ UNCHANGED sinceLastRequest
            \/ /\ cur' = Shifted(Head(q), "http")   \* the delay is over
               /\ sinceLastRequest' = 0     \* this.lastRequestTime = Date.now()

\* request(config, cacheType) called by c for url: the synchronous part
DoRequest(c, url, get) ==
    /\ rateLimitedUntil' = ExpireLimit(rateLimitedUntil)
    /\ IF isRateLimitedApi(rateLimitedUntil)
       THEN /\ reqState' = [reqState EXCEPT ![c] = Rejected("ratelimited")]
            /\ UNCHANGED <<queue, isProcessing, cur, cache, sinceLastRequest>>
       ELSE IF get /\ CacheHit(cache[url])
       THEN /\ reqState' = [reqState EXCEPT ![c] = Resolved(cache[url].response, "cache")]
            /\ UNCHANGED <<queue, isProcessing, cur, cache, sinceLastRequest>>
       ELSE /\ cache' = IF get THEN [cache EXCEPT ![url] = NoEntry] ELSE cache
            /\ reqState' = [reqState EXCEPT ![c] = Waiting]
            /\ IF isProcessing
               THEN /\ queue' = Append(queue, Item(c, url, get))
                    /\ UNCHANGED <<isProcessing, cur, sinceLastRequest>>
               ELSE ProcessQueueFrom(Append(queue, Item(c, url, get)))
    /\ UNCHANGED <<procTimer, since429>>

\* A continuation of a resolved or rejected promise runs before any timer,
\* network or database event: while a chain's request has been answered and
\* the chain has not resumed, nothing else happens.
MicrotaskPending ==
    \E c \in Chains : chains[c].pc \in {"archives", "games"} /\ reqState[c].st # "waiting"

\* what the API can answer for a url
Codes == {"win", "checkmated", "timeout", "resigned", "abandoned", "lose",
          "agreed", "repetition", "stalemate", "insufficient", "50move",
          "timevsinsufficient"}
DrawCodes == {"agreed", "repetition", "stalemate", "insufficient", "50move",
              "timevsinsufficient"}
LossCodes == {"checkmated", "timeout", "resigned", "abandoned", "lose"}
\* chess.com gives the winner "win" and the loser the way it lost; a drawn
\* game carries the same draw code on both sides
AllGames ==
    {Game(w, "win", l) : w \in {"challenger", "opponent"}, l \in LossCodes}
    \cup {Game(w, l, "win") : w \in {"challenger", "opponent"}, l \in LossCodes}
    \cup {Game(w, d, d) : w \in {"challenger", "opponent"}, d \in DrawCodes}
\* the games the API answers with in the poller's runs
Games == {Game("challenger", "win", "checkmated"), Game("challenger", "win", "lose"),
          Game("opponent", "win", "resigned"), Game("challenger", "agreed", "agreed")}
Responses(url) ==
    IF url = UrlArchives THEN {Resp("empty"), Resp("some")}
    ELSE IF url = UrlMonthly THEN {Resp("none")} \cup Games
    ELSE IF url = Null THEN {}
    ELSE {Resp("data")}

\* a client other than the checker calls request(): for the stats of a
\* player (method "get") or for the recent games (no method given)
OtherRequest(c, url) ==
    /\ ~MicrotaskPending
    /\ c \in Others
    /\ reqState[c].st # "waiting"
    /\ DoRequest(c, url, url # UrlRecent)
    /\ UNCHANGED <<checkerVars, dbVars>>

\* the 200 ms timer set at the end of processQueue() fires
ProcessQueue ==
    /\ ~MicrotaskPending
    /\ procTimer
    /\ procTimer' = FALSE
    /\ ProcessQueueFrom(queue)
    /\ UNCHANGED <<rateLimitedUntil, cache, reqState, since429, checkerVars, dbVars>>

\* the sleep before a request is over: processQueue() calls the API
WaitDone ==
    /\ ~MicrotaskPending
    /\ cur.phase = "wait"
    /\ cur' = [cur EXCEPT !.phase = "http"]
    /\ sinceLastRequest' = 0
    /\ UNCHANGED <<queue, isProcessing, procTimer, rateLimitedUntil, cache,
                   reqState, since429, checkerVars, dbVars>>

\* setRateLimit(): start the window and drop what is queued
setRateLimitApi ==
    /\ rateLimitedUntil' = RateLimitDurationApi
    /\ queue' = <<>>

\* the API answers the request in flight
HttpOk(resp) ==
    /\ ~MicrotaskPending
    /\ cur.phase = "http"
    /\ resp \in Responses(cur.key)
    /\ cache' = IF cur.get
                THEN [cache EXCEPT ![cur.key] =
                        [present |-> TRUE, age |-> 0, ttl |-> getCacheTTL(cur.key),
                         response |-> resp]]
                ELSE cache
    /\ reqState' = [reqState EXCEPT ![cur.caller] = Resolved(resp, "http")]
    /\ cur' = NoItem
    /\ procTimer' = TRUE
    /\ UNCHANGED <<queue, isProcessing, rateLimitedUntil, sinceLastRequest,
                   since429, checkerVars, dbVars>>

\* the API answers 410 or 429
Http429 ==
    /\ ~MicrotaskPending
    /\ cur.phase = "http"
    /\ setRateLimitApi
    /\ since429' = 0
    /\ reqState' = [reqState EXCEPT ![cur.caller] = Rejected("http429")]
    /\ cur' = NoItem
    /\ procTimer' = TRUE
    /\ UNCHANGED <<isProcessing, cache, sinceLastRequest, checkerVars, dbVars>>

\* the request fails otherwise (5xx, 404, network error, 15 s timeout)
HttpError ==
    /\ ~MicrotaskPending
    /\ cur.phase = "http"
    /\ reqState' = [reqState EXCEPT ![cur.caller] = Rejected("error")]
    /\ cur' = NoItem
    /\ procTimer' = TRUE
    /\ UNCHANGED <<queue, isProcessing, rateLimitedUntil, cache, sinceLastRequest,
                   since429, checkerVars, dbVars>>

\* setInterval(() => this.cleanCache(), 5 min)
CleanCache ==
    /\ ~MicrotaskPending
    /\ \E u \in Urls : CacheStale(cache[u])
    /\ cache' = [u \in Urls |-> IF CacheStale(cache[u]) THEN NoEntry ELSE cache[u]]
    /\ UNCHANGED <<queue, isProcessing, cur, procTimer, rateLimitedUntil, reqState,
                   sinceLastRequest, since429, checkerVars, dbVars>>

(***************************************************************************)
(* Database rows                                                           *)
(***************************************************************************)
NoChecker == [set |-> FALSE, timeoutId |-> 0, checkCount |-> 0]
NoFound == [winner |-> Null, result |-> Null]
NoPlayers == [challenger |-> Null, opponent |-> Null, platform |-> Null]
FreeChain == [pc |-> "free", match |-> Null, checkCount |-> 0, due |-> NoTime,
              players |-> NoPlayers, found |-> NoFound]

\* users.chess_com_username
Username(u) == IF u = "u1" THEN "alice" ELSE "bob"
\* String.prototype.toLowerCase on the names of the model
Lower(name) == IF name = "Alice" THEN "alice" ELSE name

\* the challenge a match belongs to
ChallengeOf(m) == challenges[ongoing_matches[m].challenge_id]

(***************************************************************************)
(* PaymentService                                                          *)
(***************************************************************************)
\* normalizePhoneNumber(phone): null for a missing phone, +254... otherwise
normalizePhoneNumber(phone) ==
    IF phone = Null THEN Null
    ELSE IF phone = "+254712345678" THEN phone            \* startsWith("+254")
    ELSE IF phone = "254712345678" THEN "+254712345678"   \* startsWith("254")
    ELSE IF phone = "0712345678" THEN "+254712345678"     \* startsWith("0")
    ELSE IF phone = "712345678" THEN "+254712345678"      \* nine digits
    ELSE IF phone = "0722 000 000" THEN "+254722000000"   \* blanks removed first
    ELSE phone

\* isNaN(parseInt(x)) for an id: true of null, of undefined and of text that
\* does not begin with a number, as a request id "REF_.." does not
IsNaNId(x, ids) == x \notin ids

\* a job of the request queue: which task, for which payment row, where
\* _processQueue stands with it, and the token it was given
Job(taskName, row, pc, token) ==
    [taskName |-> taskName, row |-> row, pc |-> pc, token |-> token]

Money(p, b, pc) == [payments |-> p, balance |-> b, providerCalls |-> pc]

Row(user, ch, phone, amt, type, status) ==
    [user_id |-> user, challenge_id |-> ch, phone_number |-> phone, amount |-> amt,
     transaction_type |-> type, status |-> status]

\* the constraints of the payments table: phone_number NOT NULL, the CHECK
\* on transaction_type and the CHECK on status
TransactionTypes == {"deposit", "withdrawal", "payout", "refund", "balance_credit",
                     "bet", "stake"}
PaymentStatuses == {"pending", "completed", "failed", "cancelled"}
InsertAllowed(row) ==
    /\ row.phone_number # Null
    /\ row.transaction_type \in TransactionTypes
    /\ row.status \in PaymentStatuses

\* the outcome of a handler on the money state: done is false when it threw
Outcome(st, done) ==
    [payments |-> st.payments, balance |-> st.balance,
     providerCalls |-> st.providerCalls, done |-> done]

\* initiateWithdrawal: is the amount credited to the balance?
BelowMinimumPayout(numericAmount) == numericAmount < KES(MINIMUM_PAYOUT)

\* initiateWithdrawal(phoneNumber, amount, userId, challengeId, isRefund)
\* applied to the money state st; a thrown error is caught and changes nothing
initiateWithdrawal(st, phoneNumber, amount, userId, challengeId, isRefund) ==
    IF IsNaNId(userId, Users) \/ IsNaNId(challengeId, ChallengeIds)
    THEN st
    ELSE IF normalizePhoneNumber(phoneNumber) = Null
    THEN st
    ELSE IF BelowMinimumPayout(amount)
    THEN Money(Append(st.payments,
                      Row(userId, challengeId, normalizePhoneNumber(phoneNumber), amount,
                          IF isRefund THEN "refund" ELSE "balance_credit", "completed")),
               [st.balance EXCEPT ![userId] = @ + amount],
               st.providerCalls)
    ELSE Money(Append(st.payments,
                      Row(userId, challengeId, normalizePhoneNumber(phoneNumber), amount,
                          IF isRefund THEN "refund" ELSE "payout", "pending")),
               st.balance,
               st.providerCalls \cup {Len(st.payments) + 1})

drawResults == {"insufficient", "timevsinsufficient", "repetition",
                "threefold_repetition", "stalemate", "agreed", "fifty_move", "aborted"}
decisiveResults == {"resigned", "timeout", "checkmated", "abandoned", "adjudication",
                    "rule_violation"}

RefundBoth(st, ch, id) ==
    initiateWithdrawal(
        initiateWithdrawal(st, ch.challenger_phone, ch.bet_amount, ch.challenger, id, TRUE),
        ch.opponent_phone, ch.bet_amount, ch.opponent, id, TRUE)

\* PaymentService.processMatchResult(matchResult, challenge)
payMatchResult(st, mr, ch, id) ==
    IF ch.bet_amount <= 0 THEN st
    ELSE IF ch.challenger_phone = Null \/ ch.opponent_phone = Null THEN st
    ELSE IF mr.result \in drawResults THEN RefundBoth(st, ch, id)
    ELSE IF mr.result = "win"
    THEN initiateWithdrawal(st,
            IF mr.winner_id = ch.challenger THEN ch.challenger_phone ELSE ch.opponent_phone,
            ch.bet_amount * 2, mr.winner_id, id, FALSE)
    ELSE IF mr.result \in decisiveResults
    THEN initiateWithdrawal(st,
            IF mr.loser_id = ch.challenger THEN ch.opponent_phone ELSE ch.challenger_phone,
            ch.bet_amount * 2,
            IF mr.loser_id = ch.challenger THEN ch.opponent ELSE ch.challenger,
            id, FALSE)
    ELSE RefundBoth(st, ch, id)

(***************************************************************************)
(* PerMatchResultChecker                                                   *)
(***************************************************************************)
\* a time control "m+i", or text that /(\d+)\+(\d+)/ does not match
TC(m, i) == [parsed |-> TRUE, minutes |-> m, increment |-> i]
NoTC == [parsed |-> FALSE, minutes |-> 0, increment |-> 0]
TimeControls == {NoTC, TC(1, 0)}

\* calculateMatchDuration(timeControl), seconds turned into minutes
calculateMatchDuration(tc) ==
    IF ~tc.parsed THEN DefaultDuration
    ELSE (tc.minutes * 60 * 2 + 30 * tc.increment * 2) \div 60

\* isRateLimited() of the checker
isRateLimitedChecker(until) == until # NoTime /\ until > 0

\* the username chess.com reports for a colour of the game
WhiteName(game) == IF game.white = "challenger" THEN Username("u1") ELSE Username("u2")

\* determineWinner(game, challenger, opponent)
determineWinner(game, challenger, opponent) ==
    LET challengerIsWhite == Lower(WhiteName(game)) = Lower(challenger)
        challengerResult == IF challengerIsWhite THEN game.wres ELSE game.bres
        opponentResult == IF challengerIsWhite THEN game.bres ELSE game.wres
    IN  IF challengerResult = "win" THEN challenger
        ELSE IF opponentResult = "win" THEN opponent
        ELSE IF \/ (challengerResult = "agreed" /\ opponentResult = "agreed")
                \/ challengerResult = "stalemate" \/ opponentResult = "stalemate"
                \/ challengerResult = "repetition" \/ opponentResult = "repetition"
                \/ challengerResult = "insufficient" \/ opponentResult = "insufficient"
        THEN "draw"
        ELSE IF challengerResult = "lose" THEN opponent
        ELSE IF opponentResult = "lose" THEN challenger
        ELSE "draw"

\* determineGameResult(game)
determineGameResult(game) ==
    LET w == game.wres
        b == game.bres
    IN  IF w = "timeout" \/ b = "timeout" THEN "timeout"
        ELSE IF w = "resigned" \/ b = "resigned" THEN "resigned"
        ELSE IF w = "checkmated" \/ b = "checkmated" THEN "checkmated"
        ELSE IF w = "abandoned" \/ b = "abandoned" THEN "abandoned"
        ELSE IF w = "agreed" /\ b = "agreed" THEN "agreed"
        ELSE IF w = "stalemate" \/ b = "stalemate" THEN "stalemate"
        ELSE IF w = "repetition" \/ b = "repetition" THEN "repetition"
        ELSE IF w = "insufficient" \/ b = "insufficient" THEN "insufficient"
        ELSE IF w = "win" \/ b = "win" THEN "win"
        ELSE "unknown"

\* convertResultForPayment(chessResult, match)
convertResultForPayment(found, ch) ==
    IF found.winner = "draw"
    THEN [result |-> found.result, winner_id |-> Null, loser_id |-> Null]
    ELSE IF found.winner = Username(ch.challenger)
    THEN [result |-> found.result, winner_id |-> ch.challenger, loser_id |-> ch.opponent]
    ELSE IF found.winner = Username(ch.opponent)
    THEN [result |-> found.result, winner_id |-> ch.opponent, loser_id |-> ch.challenger]
    ELSE [result |-> found.result, winner_id |-> Null, loser_id |-> Null]

\* checkChessComResult's catch: errors it throws on to checkMatchResult
isRateLimitErrorInner(why) == why \in {"http429", "ratelimited"}
\* checkMatchResult's catch: errors it takes for a rate limit
isRateLimitErrorOuter(why) == why = "http429"

\* the lowest free chain
FreeChains == {c \in Chains : chains[c].pc = "free"}
NewChain == CHOOSE c \in FreeChains : \A d \in FreeChains : c <= d

\* startCheckingMatch(matchData)
StartCheckingMatch(m, tc, name) ==
    /\ ~MicrotaskPending
    /\ starts[m] < MaxStarts
    /\ FreeChains # {}
    /\ chains' = [chains EXCEPT ![NewChain] =
                    [pc |-> "timer", match |-> m, checkCount |-> 0,
                     due |-> calculateMatchDuration(tc),
                     players |-> [challenger |-> name, opponent |-> Username("u2"),
                                  platform |-> ChallengeOf(m).platform],
                     found |-> NoFound]]
    /\ activeCheckers' = [activeCheckers EXCEPT ![m] =
                            [set |-> TRUE, timeoutId |-> NewChain, checkCount |-> 0]]
    /\ starts' = [starts EXCEPT ![m] = @ + 1]
    /\ UNCHANGED <<checkerLimitedUntil, stopped, apiVars, dbVars>>

\* a rescheduling that always comes back after one minute
RescheduleSoon(c, n, delay) ==
    /\ chains' = [chains EXCEPT ![c] = [@ EXCEPT !.pc = "timer", !.checkCount = n,
                                                 !.due = 1]]
    /\ activeCheckers' = [activeCheckers EXCEPT ![chains[c].match] =
                            [set |-> TRUE, timeoutId |-> c, checkCount |-> n]]

\* setTimeout(() => this.checkMatchResult(matchId, players, n), delay) and
\* this.activeCheckers.set(matchId, {timeoutId, checkCount: n})
Reschedule(c, n, delay) ==
    /\ chains' = [chains EXCEPT ![c] = [@ EXCEPT !.pc = "timer", !.checkCount = n,
                                                 !.due = delay]]
    /\ activeCheckers' = [activeCheckers EXCEPT ![chains[c].match] =
                            [set |-> TRUE, timeoutId |-> c, checkCount |-> n]]

\* a poll timer fires: checkMatchResult(matchId, players, checkCount) up to
\* its first await
TimerFires(c) ==
    /\ ~MicrotaskPending
    /\ chains[c].pc = "timer"
    /\ chains[c].due = 0
    /\ IF chains[c].checkCount >= maxChecksPerMatch
       THEN \* handleNoResultFound starts (awaits its SELECT)
            /\ chains' = [chains EXCEPT ![c] = [@ EXCEPT !.pc = "refund", !.due = NoTime]]
            /\ UNCHANGED <<activeCheckers, checkerLimitedUntil, apiVars>>
       ELSE IF isRateLimitedChecker(checkerLimitedUntil)
       THEN \* postponed until the limit runs out
            /\ Reschedule(c, chains[c].checkCount, checkerLimitedUntil)
            /\ UNCHANGED <<checkerLimitedUntil, apiVars>>
       ELSE /\ checkerLimitedUntil' = ExpireLimit(checkerLimitedUntil)
            /\ IF chains[c].players.platform # "chess.com"
               THEN \* checkChessComResult returns null
                    /\ Reschedule(c, chains[c].checkCount + 1, checkInterval)
                    /\ UNCHANGED apiVars
               ELSE /\ chains' = [chains EXCEPT ![c] = [@ EXCEPT !.pc = "archives",
                                                            !.due = NoTime]]
                    /\ DoRequest(c, UrlArchives, TRUE)
                    /\ UNCHANGED activeCheckers
    /\ UNCHANGED <<starts, stopped, dbVars>>

\* the request of a check has been answered: the check goes on up to its
\* next await
ChainResumes(c) ==
    /\ chains[c].pc \in {"archives", "games"}
    /\ reqState[c].st # "waiting"
    /\ LET r == reqState[c] IN
       IF r.st = "rejected" /\ isRateLimitErrorInner(r.why) /\ isRateLimitErrorOuter(r.why)
       THEN \* setRateLimit() and one check after the whole pause
            /\ checkerLimitedUntil' = rateLimitDuration
            /\ Reschedule(c, chains[c].checkCount + 1, rateLimitDuration)
            /\ reqState' = [reqState EXCEPT ![c] = Idle]
            /\ UNCHANGED <<queue, isProcessing, cur, procTimer, rateLimitedUntil, cache,
                           sinceLastRequest, since429>>
       ELSE IF r.st = "rejected"
               \/ (chains[c].pc = "archives" /\ r.val.kind = "empty")
               \/ (chains[c].pc = "games" /\ r.val.kind # "game")
       THEN \* an error that is no rate limit, or no result yet
            /\ Reschedule(c, chains[c].checkCount + 1, checkInterval)
            /\ reqState' = [reqState EXCEPT ![c] = Idle]
            /\ UNCHANGED <<checkerLimitedUntil, queue, isProcessing, cur, procTimer,
                           rateLimitedUntil, cache, sinceLastRequest, since429>>
       ELSE IF chains[c].pc = "archives"
       THEN \* the latest archive is fetched
            /\ chains' = [chains EXCEPT ![c] = [@ EXCEPT !.pc = "games"]]
            /\ DoRequest(c, UrlMonthly, TRUE)
            /\ UNCHANGED <<activeCheckers, checkerLimitedUntil>>
       ELSE \* a game of the two players: processMatchResult starts
            /\ chains' = [chains EXCEPT ![c] =
                  [@ EXCEPT !.pc = "process",
                            !.found = [winner |-> determineWinner(r.val,
                                                     chains[c].players.challenger,
                                                     chains[c].players.opponent),
                                       result |-> determineGameResult(r.val)]]]
            /\ reqState' = [reqState EXCEPT ![c] = Idle]
            /\ UNCHANGED <<activeCheckers, checkerLimitedUntil, queue, isProcessing, cur,
                           procTimer, rateLimitedUntil, cache, sinceLastRequest, since429>>
    /\ UNCHANGED <<starts, stopped, dbVars>>

\* stopCheckingMatch(matchId) applied to the chains ch: clearTimeout of the
\* timer the map holds (nothing happens if it has fired), then delete
StopChains(ch, m) ==
    LET e == activeCheckers[m] IN
    IF e.set /\ ch[e.timeoutId].pc = "timer" /\ ch[e.timeoutId].match = m
    THEN [ch EXCEPT ![e.timeoutId] = FreeChain]
    ELSE ch

MatchRow(ch, checked, winner, result, mres) ==
    [challenge_id |-> ch, result_checked |-> checked, winner_id |-> winner,
     result |-> result, match_result |-> mres]

Emit(em, ev, user) == [em EXCEPT ![<<ev, user>>] = Min(@ + 1, 2)]

\* processMatchResult(matchId, result), then stopCheckingMatch(matchId)
ProcessMatchResult(c) ==
    /\ ~MicrotaskPending
    /\ chains[c].pc = "process"
    /\ LET m == chains[c].match
           ch == ChallengeOf(m)
           paymentResult == convertResultForPayment(chains[c].found, ch)
           st == IF ch.bet_amount > 0
                 THEN payMatchResult(Money(payments, balance, providerCalls),
                                     paymentResult, ch, ongoing_matches[m].challenge_id)
                 ELSE Money(payments, balance, providerCalls)
       IN /\ payments' = st.payments
          /\ balance' = st.balance
          /\ providerCalls' = st.providerCalls
          /\ ongoing_matches' = [ongoing_matches EXCEPT ![m] =
                MatchRow(@.challenge_id, TRUE, paymentResult.winner_id,
                         paymentResult.result, "found")]
          /\ writes' = [writes EXCEPT ![m] = @ + 1]
          /\ chains' = StopChains([chains EXCEPT ![c] = FreeChain], m)
          /\ activeCheckers' = [activeCheckers EXCEPT ![m] = NoChecker]
    /\ UNCHANGED <<checkerLimitedUntil, starts, stopped, challenges, emitted, payVars,
                   apiVars>>

\* handleNoResultFound: is the refund sent through the provider?
AutoRefundViaProvider(betAmount) == betAmount > KES(AutoRefundLimit)

\* a refund that credits the challenger's wallet and forgets the opponent's
autoRefundChallengerOnly(st, ch, id) ==
    Outcome(Money(st.payments
                     \o <<Row(ch.challenger, id, ch.challenger_phone, ch.bet_amount,
                              "refund", "completed"),
                          Row(ch.opponent, id, ch.opponent_phone, ch.bet_amount,
                              "refund", "completed")>>,
                  [st.balance EXCEPT ![ch.challenger] = @ + ch.bet_amount],
                  st.providerCalls),
            TRUE)

\* handleNoResultFound for a stake betAmount > 0: the refund of both players
autoRefund(st, ch, id) ==
    LET betAmount == ch.bet_amount
        r1 == Row(ch.challenger, id, ch.challenger_phone, betAmount, "refund", "completed")
        r2 == Row(ch.opponent, id, ch.opponent_phone, betAmount, "refund", "completed")
        credited == [st.balance EXCEPT ![ch.challenger] = @ + betAmount,
                                       ![ch.opponent] = @ + betAmount]
    IN  IF AutoRefundViaProvider(betAmount)
        THEN Outcome(RefundBoth(st, ch, id), TRUE)
        ELSE \* both wallets are credited, then one INSERT of the two rows
             IF InsertAllowed(r1) /\ InsertAllowed(r2)
             THEN Outcome(Money(st.payments \o <<r1, r2>>, credited, st.providerCalls), TRUE)
             ELSE Outcome(Money(st.payments, credited, st.providerCalls), FALSE)

\* handleNoResultFound(matchId, players), then stopCheckingMatch(matchId)
HandleNoResultFound(c) ==
    /\ ~MicrotaskPending
    /\ chains[c].pc = "refund"
    /\ LET m == chains[c].match
           ch == ChallengeOf(m)
           out == autoRefund(Money(payments, balance, providerCalls), ch,
                             ongoing_matches[m].challenge_id)
       IN IF ch.bet_amount = 0
          THEN /\ ongoing_matches' = [ongoing_matches EXCEPT ![m] =
                     MatchRow(@.challenge_id, TRUE, @.winner_id, "no_result_no_bet",
                              @.match_result)]
               /\ writes' = [writes EXCEPT ![m] = @ + 1]
               /\ UNCHANGED <<moneyVars, emitted>>
          ELSE /\ payments' = out.payments
               /\ balance' = out.balance
               /\ providerCalls' = out.providerCalls
               /\ IF out.done
                  THEN /\ ongoing_matches' = [ongoing_matches EXCEPT ![m] =
                             MatchRow(@.challenge_id, TRUE, @.winner_id,
                                      "no_result_refunded", "no_result")]
                       /\ writes' = [writes EXCEPT ![m] = @ + 1]
                       /\ emitted' = Emit(Emit(emitted, "matchRefunded", ch.challenger),
                                          "matchRefunded", ch.opponent)
                  ELSE \* the INSERT threw: caught, the match is left as it was
                       UNCHANGED <<ongoing_matches, writes, emitted>>
    /\ chains' = StopChains([chains EXCEPT ![c] = FreeChain], chains[c].match)
    /\ activeCheckers' = [activeCheckers EXCEPT ![chains[c].match] = NoChecker]
    /\ UNCHANGED <<checkerLimitedUntil, starts, stopped, challenges, payVars, apiVars>>

\* manualStopCheck(matchId)
ManualStopCheck(m) ==
    /\ ~MicrotaskPending
    /\ chains' = StopChains(chains, m)
    /\ activeCheckers' = [activeCheckers EXCEPT ![m] = NoChecker]
    /\ stopped' = [stopped EXCEPT ![m] = TRUE]
    /\ (activeCheckers[m].set \/ ~stopped[m])
    /\ UNCHANGED <<checkerLimitedUntil, starts, apiVars, dbVars>>

(***************************************************************************)
(* PaymentService.initiateDeposit and PaymentController.handleCallback     *)
(***************************************************************************)
\* the request id of the payment row at index i of the table
RequestIds == 1..(MaxDeposits + 1)

\* deposit rows
Deposits == {i \in DOMAIN payments : payments[i].transaction_type = "deposit"}

\* initiateDeposit(phoneNumber, amount, userId, challengeId): the row is
\* written as pending, then the provider is called; accepted says whether
\* the provider took the request (the catch block cannot name requestId, so
\* the row stays pending when it did not)
InitiateDeposit(u, phoneNumber, id, accepted) ==
    /\ Cardinality(Deposits) < MaxDeposits
    /\ ~IsNaNId(u, Users) /\ ~IsNaNId(id, ChallengeIds)
    /\ payments' = Append(payments,
                      Row(u, id, normalizePhoneNumber(phoneNumber),
                          challenges[id].bet_amount, "deposit", "pending"))
    /\ providerCalls' = IF accepted THEN providerCalls \cup {Len(payments) + 1}
                        ELSE providerCalls
    /\ UNCHANGED <<apiVars, checkerVars, ongoing_matches, writes, challenges, balance,
                   emitted, payVars>>

\* a callback payload: the request id field (absent, plain, or with the
\* provider's "1003|" prefix), transactionReference, status, and a message
\* that may carry the request id in its text
NoOid == [given |-> FALSE, prefixed |-> FALSE, id |-> 0]
Oid(pre, i) == [given |-> TRUE, prefixed |-> pre, id |-> i]
NoMessage == [text |-> Null, id |-> 0]
Payload(oid, ref, status, message) ==
    [originatorRequestId |-> oid, transactionReference |-> ref, status |-> status,
     message |-> message]
NoPayload == Payload(NoOid, FALSE, Null, NoMessage)

\* an extraction that falls back on the first request when it finds no id
extractRequestIdFirst(payload) ==
    IF payload.originatorRequestId.given
    THEN payload.originatorRequestId.id
    ELSE IF payload.message.id # 0 THEN payload.message.id ELSE 1

\* extractRequestId(payload): 0 stands for null
extractRequestId(payload) ==
    IF payload.originatorRequestId.given
    THEN payload.originatorRequestId.id          \* the prefix is stripped
    ELSE payload.message.id                      \* found in the text, or null

\* String.prototype.toLowerCase and includes on the texts of the model
LowerText(t) ==
    IF t = "SUCCESS" THEN "success"
    ELSE IF t = "FAILED" THEN "failed"
    ELSE IF t = "PENDING" THEN "pending"
    ELSE IF t = "QUEUED" THEN "queued"
    ELSE IF t = "Request cancelled by user" THEN "request cancelled by user"
    ELSE IF t = "1003|DEP : Error" THEN "1003|dep : error"
    ELSE IF t = "Completed" THEN "completed"
    ELSE IF t = "ERROR" THEN "error"
    ELSE IF t = "PROCESSING" THEN "processing"
    ELSE t
Includes(t, word) ==
    \/ t = "success" /\ word = "success"
    \/ t = "failed" /\ word \in {"fail", "failed"}
    \/ t = "pending" /\ word = "pend"
    \/ t = "request cancelled by user" /\ word = "cancelled"
    \/ t = "1003|dep : error" /\ word = "error"
    \/ t = "completed" /\ word = "complete"
    \/ t = "error" /\ word = "error"
    \/ t = "processing" /\ word = "processing"

FailureMessage(message) ==
    /\ message.text # Null
    /\ \E w \in {"cancelled", "failed", "error", "insufficient"} :
          Includes(LowerText(message.text), w)

\* a mapping that knows no final status
mappedStatusProcessing(payload) == "processing"

\* a mapping that reads the status field before the transaction reference
mappedStatusByField(payload) ==
    LET low == LowerText(payload.status)
    IN  IF payload.status # Null /\ (Includes(low, "fail") \/ Includes(low, "error"))
        THEN "failed"
        ELSE IF payload.transactionReference THEN "completed"
        ELSE IF payload.status \in {"5008", "5000", "5001"} THEN "failed"
        ELSE IF Includes(low, "success") \/ Includes(low, "complete") THEN "completed"
        ELSE IF Includes(low, "pend") \/ Includes(low, "processing") THEN "processing"
        ELSE "pending"

\* the status mapping of handleCallback
mappedStatus(payload) ==
    LET status == payload.status
        low == LowerText(status)
    IN  IF payload.transactionReference THEN "completed"
        ELSE IF status # Null
        THEN IF status \in {"5008", "5000", "5001"} THEN "failed"
             ELSE IF Includes(low, "success") \/ Includes(low, "complete") THEN "completed"
             ELSE IF Includes(low, "fail") \/ Includes(low, "error")
                     \/ FailureMessage(payload.message) THEN "failed"
             ELSE IF Includes(low, "pend") \/ Includes(low, "processing") THEN "processing"
             ELSE "pending"
        ELSE IF FailureMessage(payload.message) THEN "failed"
        ELSE "pending"

\* what a callback did: the HTTP status returned, the rows its UPDATE
\* changed, the socket events it emitted, whether it set deposits_complete
Did(payload, http, rows, emits, setComplete) ==
    [payload |-> payload, http |-> http, rows |-> rows, emits |-> emits,
     setComplete |-> setComplete]

\* completed deposit rows of challenge id in rows
CompletedDeposits(rows, id) ==
    {i \in DOMAIN rows : /\ rows[i].challenge_id = id
                         /\ rows[i].transaction_type = "deposit"
                         /\ rows[i].status = "completed"}

\* handleCallback(req, res)
HandleCallback(payload) ==
    /\ callbacks < MaxCallbacks
    /\ callbacks' = callbacks + 1
    /\ LET rid == extractRequestId(payload)
           status == mappedStatus(payload)
       IN IF rid = 0
          THEN \* no request id: 200, success false
               /\ lastCallback' = Did(payload, 200, 0, 0, FALSE)
               /\ UNCHANGED <<payments, challenges, emitted>>
          ELSE IF rid \notin DOMAIN payments
          THEN \* the UPDATE matches no row: 200
               /\ lastCallback' = Did(payload, 200, 0, 0, FALSE)
               /\ UNCHANGED <<payments, challenges, emitted>>
          ELSE IF status \notin PaymentStatuses
          THEN \* the UPDATE breaks the CHECK on status: 500
               /\ lastCallback' = Did(payload, 500, 0, 0, FALSE)
               /\ UNCHANGED <<payments, challenges, emitted>>
          ELSE LET payment == [payments[rid] EXCEPT !.status = status]
                   rows == [payments EXCEPT ![rid] = payment]
                   deposit == payment.transaction_type = "deposit"
                   ch == challenges[payment.challenge_id]
                   both == /\ deposit /\ status = "completed"
                           /\ Cardinality(CompletedDeposits(rows, payment.challenge_id)) >= 2
                   e1 == IF deposit /\ status = "failed"
                         THEN Emit(emitted, "payment-failed", payment.user_id)
                         ELSE IF deposit /\ status = "completed"
                         THEN Emit(emitted, "payment-success", payment.user_id)
                         ELSE emitted
                   e2 == IF both
                         THEN Emit(Emit(e1, "both-payments-completed", ch.challenger),
                                   "both-payments-completed", ch.opponent)
                         ELSE e1
               IN /\ payments' = rows
                  /\ emitted' = e2
                  /\ challenges' = IF both
                                   THEN [challenges EXCEPT ![payment.challenge_id].status =
                                            "deposits_complete"]
                                   ELSE challenges
                  /\ lastCallback' =
                        Did(payload, 200, 1,
                            (IF deposit /\ status \in {"failed", "completed"} THEN 1 ELSE 0)
                               + (IF both THEN 2 ELSE 0),
                            both)
    /\ UNCHANGED <<apiVars, checkerVars, ongoing_matches, writes, balance, providerCalls,
                   gatewayVars, clientVars, sweepVars, extraVars>>

(***************************************************************************)
(* PaymentTimeoutChecker                                                   *)
(***************************************************************************)
\* users.phone
UserPhone(u) == IF u \in Users THEN "0712345678" ELSE Null

\* addToWallet(userId, amount, challengeId, ..): the balance is raised, then
\* the transaction is recorded
addToWallet(st, userId, amount, challengeId) ==
    LET credited == [st.balance EXCEPT ![userId] = @ + amount]
        row == Row(userId, challengeId, UserPhone(userId), amount, "wallet_credit",
                   "completed")
    IN  IF InsertAllowed(row)
        THEN Outcome(Money(Append(st.payments, row), credited, st.providerCalls), TRUE)
        ELSE Outcome(Money(st.payments, credited, st.providerCalls), FALSE)

\* PaymentTimeoutChecker.initiateWithdrawal(userId, amount, challengeId, ..):
\* a pending withdrawal row, then paymentService.initiateWithdrawal(
\* phoneNumber, amount, requestId), which takes requestId for the user id
sweeperWithdrawal(st, userId, amount, challengeId) ==
    IF UserPhone(userId) = Null
    THEN addToWallet(st, userId, amount, challengeId)
    ELSE LET row == Row(userId, challengeId, UserPhone(userId), amount, "withdrawal",
                        "pending")
             recorded == Money(Append(st.payments, row), st.balance, st.providerCalls)
         IN  IF InsertAllowed(row)
             THEN Outcome(initiateWithdrawal(recorded, UserPhone(userId), amount,
                                             "REF", Null, FALSE), TRUE)
             ELSE addToWallet(st, userId, amount, challengeId)

\* processRefund: is the refund sent through the provider?
RefundViaProvider(numericAmount) == numericAmount >= KES(minWithdrawalAmount)

\* processRefund(userId, amount, challengeId, reason, opponentId)
processRefund(st, userId, amount, challengeId) ==
    IF RefundViaProvider(amount)
    THEN sweeperWithdrawal(st, userId, amount, challengeId)
    ELSE addToWallet(st, userId, amount, challengeId)

\* a sweeper that looks at every staked challenge that is not cancelled
SweeperSelectsOpen(ch) ==
    ch.status # "cancelled" /\ ch.bet_amount > 0 /\ ch.payment_status # "completed"

\* checkExpiredPayments: WHERE c.status = 'accepted' AND c.bet_amount > 0
\* AND c.payment_status != 'completed'
SweeperSelects(ch) ==
    ch.status = "accepted" /\ ch.bet_amount > 0 /\ ch.payment_status # "completed"

\* an expiry that leaves the payment rows of the challenge as they are
CancelNone(rows, id) == rows

\* UPDATE payments SET status = 'cancelled' WHERE challenge_id = $1 AND
\* status IN ('pending', 'failed')
CancelOpen(rows, id) ==
    [i \in DOMAIN rows |->
        IF rows[i].challenge_id = id /\ rows[i].status \in {"pending", "failed"}
        THEN [rows[i] EXCEPT !.status = "cancelled"]
        ELSE rows[i]]

\* UPDATE challenges SET status = 'cancelled', payment_status = 'failed',
\* updated_at = NOW()
Cancelled(ch) ==
    [ch EXCEPT !.status = "cancelled", !.payment_status = "failed", !.sinceUpdated = 0]

\* the completed deposit a partial timeout refunds: the newest one
NewestCompleted(id) ==
    CHOOSE i \in CompletedDeposits(payments, id) :
       \A j \in CompletedDeposits(payments, id) : j <= i

\* checkExpiredPayments() for challenge id: processExpiredChallenge and what
\* it calls
CheckExpiredPayments(id) ==
    /\ SweeperSelects(challenges[id])
    /\ \A u \in Users : balance[u] < MaxSweeps * challenges[id].bet_amount
    /\ LET completed == Cardinality(CompletedDeposits(payments, id))
           since == challenges[id].sinceUpdated
       IN IF completed = 1 /\ since > partialPaymentTimeout
          THEN \* handlePartialPaymentTimeout
               LET paid == payments[NewestCompleted(id)]
                   out == processRefund(Money(payments, balance, providerCalls),
                                        paid.user_id, paid.amount, id)
               IN /\ balance' = out.balance
                  /\ providerCalls' = out.providerCalls
                  /\ IF out.done
                     THEN /\ payments' = CancelOpen(out.payments, id)
                          /\ challenges' = [challenges EXCEPT ![id] = Cancelled(@)]
                     ELSE \* the refund threw: caught, nothing is cancelled
                          /\ payments' = out.payments
                          /\ UNCHANGED challenges
          ELSE IF completed = 0 /\ since > fullExpiryTimeout
          THEN \* handleFullExpiry
               /\ challenges' = [challenges EXCEPT ![id] = Cancelled(@)]
               /\ payments' = CancelOpen(payments, id)
               /\ UNCHANGED <<balance, providerCalls>>
          ELSE IF completed = 2
          THEN /\ challenges' = [challenges EXCEPT ![id].payment_status = "completed"]
               /\ UNCHANGED <<payments, balance, providerCalls>>
          ELSE UNCHANGED <<challenges, payments, balance, providerCalls>>
    /\ sweeps' = 1 - sweeps
    /\ UNCHANGED <<apiVars, checkerVars, ongoing_matches, writes, emitted, callbacks,
                   lastCallback, gatewayVars, clientVars, extraVars, cycle, outcome, pollers>>

(***************************************************************************)
(* Time                                                                    *)
(***************************************************************************)
\* a pending poll timer is due
TimerDue == \E c \in Chains : chains[c].pc = "timer" /\ chains[c].due = 0

\* a step that takes less than a minute is pending
StepPending ==
    \/ cur # NoItem
    \/ procTimer
    \/ \E c \in Chains : chains[c].pc \in {"process", "refund"}

CountDown(t) == IF t = NoTime \/ t = 0 THEN t ELSE t - 1
Older(entry) ==
    IF entry.present THEN [entry EXCEPT !.age = Min(@ + 1, entry.ttl + 1)] ELSE entry

\* now - updated_at of a challenge the sweeper looks at
OlderChallenge(ch) ==
    IF SweeperSelects(ch)
    THEN [ch EXCEPT !.sinceUpdated = Min(@ + 1, partialPaymentTimeout + 1)]
    ELSE ch

\* one minute passes; a timer that is due fires first
Tick ==
    /\ ~MicrotaskPending
    /\ ~TimerDue
    /\ ~StepPending
    /\ rateLimitedUntil' = CountDown(rateLimitedUntil)
    /\ checkerLimitedUntil' = CountDown(checkerLimitedUntil)
    /\ since429' = IF since429 = NoTime THEN NoTime
                   ELSE Min(since429 + 1, RateLimitDurationApi)
    /\ sinceLastRequest' = 1
    /\ cache' = [u \in Urls |-> Older(cache[u])]
    /\ chains' = [c \in Chains |->
                    IF chains[c].pc = "timer"
                    THEN [chains[c] EXCEPT !.due = @ - 1]
                    ELSE chains[c]]
    /\ challenges' = [id \in DOMAIN challenges |-> OlderChallenge(challenges[id])]
    /\ UNCHANGED <<queue, isProcessing, cur, procTimer, reqState, activeCheckers,
                   starts, stopped, ongoing_matches, writes, payments, balance,
                   providerCalls, emitted, payVars>>

(***************************************************************************)
(* The poller, the API queue and the settlement of one staked match        *)
(***************************************************************************)
Phone == "0712345678"
Stakes == {0, KES(5), KES(50)}
Events == {"matchRefunded", "payment-success", "payment-failed",
           "both-payments-completed"}

Challenge(bet, cphone, ophone, platform, status, payment_status) ==
    [challenger |-> "u1", opponent |-> "u2", bet_amount |-> bet,
     challenger_phone |-> cphone, opponent_phone |-> ophone,
     platform |-> platform, status |-> status, payment_status |-> payment_status,
     sinceUpdated |-> 0]

InitApi ==
    /\ queue = <<>>
    /\ isProcessing = FALSE
    /\ cur = NoItem
    /\ procTimer = FALSE
    /\ rateLimitedUntil = NoTime
    /\ cache = [u \in Urls |-> NoEntry]
    /\ reqState = [c \in Callers |-> Idle]
    /\ sinceLastRequest = 1
    /\ since429 = NoTime
    /\ runs = {}
    /\ requests = 0
    /\ dispatched = <<>>
    /\ cleanups = 0

InitChecker ==
    /\ chains = [c \in Chains |-> FreeChain]
    /\ activeCheckers = [m \in Matches |-> NoChecker]
    /\ checkerLimitedUntil = NoTime
    /\ starts = [m \in Matches |-> 0]
    /\ stopped = [m \in Matches |-> FALSE]

\* the challenges one run of checkExpiredPayments() selects, in the order
\* of the rows, and the matches that are polled side by side
Selected == 1..MaxSelected
Polled == 1..MaxPolled

\* the case processExpiredChallenge finds a challenge in: one deposit
\* completed and time up, none completed and time up, both completed, or
\* none of these
Cases == {"partial", "full", "paid", "open"}

\* no run of checkExpiredPayments() is under way
NoCycle == [active |-> FALSE, rows |-> <<>>, found |-> [id \in Selected |-> "open"]]

\* new PaymentTimeoutChecker(), and no poll timer registered
InitSweep ==
    /\ sweeps = 0
    /\ cycle = NoCycle
    /\ outcome = [id \in Selected |-> "waiting"]
    /\ pollers = [m \in Polled |-> "idle"]

\* a call of initiateDeposit or initiateWithdrawal as the caller wrote it:
\* the n-th call, its arguments before any conversion, and success of the
\* object it returned
Call(n, op, userId, challengeId, amount, success) ==
    [n |-> n, op |-> op, userId |-> userId, challengeId |-> challengeId,
     amount |-> amount, success |-> success]

\* what processExpiredChallenge decided from its SELECT of the deposits: the
\* case, and the completed deposit a partial timeout will refund
Found(pc, case, paid) == [pc |-> pc, case |-> case, paid |-> paid]

\* requestDelay in milliseconds, consecutiveSuccesses, and what the last
\* request ended with (observer)
Timing(requestDelay, consecutiveSuccesses, last) ==
    [requestDelay |-> requestDelay, consecutiveSuccesses |-> consecutiveSuccesses,
     last |-> last]

\* new RequestQueue(name, options): nothing queued, nothing processing
NewQueue ==
    [queue |-> <<>>, processing |-> {}, running |-> {}, timers |-> {},
     immediates |-> 0, added |-> 0, invoked |-> <<>>, completed |-> <<>>,
     failed |-> <<>>]

\* text is a sequence of tokens: a run of letters, a run of digits, a run of
\* blanks (" "), or one of the signs "_", "|" and ":"; the empty sequence is
\* the empty string, undefined and null alike (all are falsy)
NoText == <<>>

\* req.body: fromId is the request_id the sender built the body from
Body(originatorRequestId, requestId, message, description, fromId) ==
    [originatorRequestId |-> originatorRequestId, requestId |-> requestId,
     message |-> message, description |-> description, fromId |-> fromId]
NoBody == Body(NoText, NoText, NoText, NoText, NoText)

InitExtra ==
    /\ lastCall = Call(0, "none", "1", "1", "5", FALSE)
    /\ sweep = Found("idle", "open", 0)
    /\ timing = Timing(2000, 0, "none")
    /\ rq = NewQueue
    /\ webhook = [body |-> NoBody, id |-> NoText]

\* new PaymentService(): this.queue = [], this.processing = false
InitGateway ==
    /\ payQueue = <<>>
    /\ processing = FALSE
    /\ running = {}
    /\ tokens = 0
    /\ enqueued = <<>>
    /\ issued = <<>>
    /\ returned = <<>>

InitMoney ==
    /\ payments = <<>>
    /\ balance = [u \in Users |-> 0]
    /\ providerCalls = {}
    /\ emitted = [e \in Events \X Users |-> 0]
    /\ callbacks = 0
    /\ lastCallback = Did(NoPayload, 0, 0, 0, FALSE)
    /\ InitSweep
    /\ InitExtra
    /\ InitGateway

\* a match has been created from an accepted challenge with a stake of
\* bets and a challenger phone of phones
InitWith(bets, phones) ==
    /\ InitApi
    /\ InitChecker
    /\ InitMoney
    /\ \E bet \in bets, cphone \in phones :
          challenges = [c \in ChallengeIds |->
                          Challenge(bet, cphone, Phone, "chess.com", "deposits_complete",
                                    "pending")]
    /\ ongoing_matches = [m \in Matches |-> MatchRow("c1", FALSE, Null, Null, Null)]
    /\ writes = [m \in Matches |-> 0]

\* challenges.challenger_phone is a nullable column
Init == InitWith(Stakes, {Phone, Null})

\* the steps of the API queue and of the poll chains
QueueStep ==
    \/ ProcessQueue
    \/ WaitDone
    \/ \E resp \in Responses(cur.key) : HttpOk(resp)
    \/ CleanCache

ChainStep ==
    \/ \E c \in Chains : TimerFires(c)
    \/ \E c \in Chains : ChainResumes(c)
    \/ \E c \in Chains : ProcessMatchResult(c)
    \/ \E c \in Chains : HandleNoResultFound(c)

Names == {"alice", "Alice"}

\* one match, started once and polled to its end under every API outcome
Next ==
    \/ \E m \in Matches, tc \in TimeControls, name \in Names :
          starts[m] = 0 /\ StartCheckingMatch(m, tc, name)
    \/ \E m \in Matches : ManualStopCheck(m)
    \/ ChainStep
    \/ QueueStep
    \/ Http429
    \/ HttpError
    \/ Tick

Spec == Init /\ [][Next]_vars

\* startCheckingMatch is called again for a match that is being checked
NextTwice ==
    \/ \E m \in Matches, tc \in TimeControls :
          StartCheckingMatch(m, tc, Username("u1"))
    \/ \E m \in Matches : ManualStopCheck(m)
    \/ ChainStep
    \/ QueueStep
    \/ Tick

SpecTwice == InitWith({KES(5), KES(50)}, {Phone}) /\ [][NextTwice]_vars

\* the match shares the API queue with the other clients
NextShare ==
    \/ \E m \in Matches, tc \in TimeControls :
          starts[m] = 0 /\ StartCheckingMatch(m, tc, Username("u1"))
    \/ \E c \in Others : OtherRequest(c, UrlRecent)
    \/ ChainStep
    \/ QueueStep
    \/ Http429
    \/ HttpError
    \/ Tick

SpecShare == InitWith({KES(50)}, {Phone}) /\ [][NextShare]_vars

\* the API queue and its clients alone
NextApi ==
    \/ \E c \in Others, url \in {UrlStats, UrlRecent} : OtherRequest(c, url)
    \/ QueueStep
    \/ Http429
    \/ HttpError
    \/ Tick

SpecApi == InitWith({KES(50)}, {Phone}) /\ [][NextApi]_vars

(***************************************************************************)
(* Settlement of a match                                                   *)
(***************************************************************************)
MoneyTypes == {"payout", "refund", "balance_credit"}

\* the amounts of the payout, refund and balance-credit rows of rows that
\* belong to challenge id and, unless u is Null, to user u
RECURSIVE Paid(_, _, _)
Paid(rows, id, u) ==
    IF rows = <<>> THEN 0
    ELSE (IF /\ Head(rows).challenge_id = id
             /\ Head(rows).transaction_type \in MoneyTypes
             /\ (u = Null \/ Head(rows).user_id = u)
          THEN Head(rows).amount ELSE 0) + Paid(Tail(rows), id, u)

StakeOf(m) == ChallengeOf(m).bet_amount

\* C1: once a match has result_checked = true, no step writes its result
\* columns again and no step adds a payout or refund row for its challenge.
AtMostOneSettlement ==
    [][\A m \in Matches :
          ongoing_matches[m].result_checked
             => /\ writes'[m] = writes[m]
                /\ Len(payments') = Len(payments)]_vars

\* C2: for a stake s > 0 the rows of the challenge never sum to more than
\* 2s; a found decisive result has paid its winner 2s, a found draw has
\* paid each player s.
Conservation ==
    \A m \in Matches :
       LET row == ongoing_matches[m]
           id == row.challenge_id
           s == StakeOf(m)
       IN  s > 0 =>
             /\ Paid(payments, id, Null) <= 2 * s
             /\ (row.result_checked /\ row.match_result = "found"
                    /\ row.winner_id # Null)
                   => Paid(payments, id, row.winner_id) = 2 * s
             /\ (row.result_checked /\ row.match_result = "found"
                    /\ row.result \in drawResults)
                   => \A u \in Users : Paid(payments, id, u) = s

\* C3: a match with a stake s > 0 that has result_checked = true has payout
\* or refund rows of exactly 2s for its challenge.
NoStakeLost ==
    \A m \in Matches :
       (StakeOf(m) > 0 /\ ongoing_matches[m].result_checked)
          => Paid(payments, ongoing_matches[m].challenge_id, Null) = 2 * StakeOf(m)

(***************************************************************************)
(* Rate limiting of the API queue                                          *)
(***************************************************************************)
\* a 410/429 was received less than five minutes ago
InWindow == since429 # NoTime /\ since429 < 5

\* the item of caller c is in the queue or is the one being processed
Held(c) == c \in QueuedCallers \/ cur.caller = c

NoCallerLeftWaiting ==
    \A c \in Callers : reqState[c].st = "waiting" => Held(c)

\* a check of chain c is under way or will be
CanProgress(c) ==
    \/ chains[c].pc \in {"timer", "process", "refund"}
    \/ /\ chains[c].pc \in {"archives", "games"}
       /\ (reqState[c].st # "waiting" \/ Held(c))

\* C10: a match that was started, was not stopped by hand and has not
\* reached result_checked = true has a check that is under way or will be:
\* a pending timer, a request that will be answered, or a settlement that
\* is running.
PollerProgress ==
    \A m \in Matches :
       (starts[m] > 0 /\ ~stopped[m] /\ ~ongoing_matches[m].result_checked)
          => \E c \in Chains : chains[c].match = m /\ CanProgress(c)

(***************************************************************************)
(* Deposits, webhook callbacks and the timeout sweeper of one challenge    *)
(***************************************************************************)
\* sample payloads for request id i: a success that carries a transaction
\* reference, an explicit failure, a status the mapping leaves pending, one
\* it maps to "processing", and a bare error message with the id in its text
\* (0: no id at all)
Payloads ==
    UNION {{Payload(Oid(TRUE, i), TRUE, Null, NoMessage),
            Payload(Oid(FALSE, i), FALSE, "FAILED", NoMessage),
            Payload(Oid(FALSE, i), FALSE, "QUEUED", NoMessage),
            Payload(Oid(FALSE, i), FALSE, "PENDING", NoMessage)} : i \in RequestIds}
    \cup {Payload(NoOid, FALSE, Null, [text |-> "1003|DEP : Error", id |-> i]) :
             i \in {0, 1}}

\* the provider calls back for the requests it took; anyone can post the rest
Sendable(payload) ==
    LET rid == extractRequestId(payload)
    IN  rid \in DOMAIN payments => rid \in providerCalls

\* a challenge has been accepted and waits for the two deposits
InitPay ==
    /\ InitApi
    /\ InitChecker
    /\ InitMoney
    /\ \E bet \in {KES(5), KES(50)} :
          challenges = [c \in ChallengeIds |->
                          Challenge(bet, Null, Null, "chess.com", "accepted", "pending")]
    /\ ongoing_matches = [m \in Matches |-> MatchRow("c1", FALSE, Null, Null, Null)]
    /\ writes = [m \in Matches |-> 0]

NextPay ==
    \/ \E u \in Users, accepted \in BOOLEAN : InitiateDeposit(u, Phone, "c1", accepted)
    \/ \E payload \in Payloads : Sendable(payload) /\ HandleCallback(payload)
    \/ \E id \in ChallengeIds : CheckExpiredPayments(id)
    \/ Tick

SpecPay == InitPay /\ [][NextPay]_vars

(***************************************************************************)
(* The three paths that return money, each applied to one amount           *)
(***************************************************************************)
\* amounts on both sides of ten shillings, in hundredths
Amounts == (KES(10) - Spread)..(KES(10) + Spread)

NothingReturned == payments = <<>> /\ providerCalls = {} /\ \A u \in Users : balance[u] = 0

Returned(out) ==
    /\ payments' = out.payments
    /\ balance' = out.balance
    /\ providerCalls' = out.providerCalls
    /\ UNCHANGED <<apiVars, checkerVars, ongoing_matches, writes, challenges, emitted,
                   payVars>>

\* paymentService.initiateWithdrawal(phone, amount, userId, challengeId, isRefund)
WithdrawalPath(u, isRefund) ==
    /\ NothingReturned
    /\ Returned(initiateWithdrawal(Money(payments, balance, providerCalls), Phone,
                                   challenges["c1"].bet_amount, u, "c1", isRefund))

\* the refund of handleNoResultFound
AutoRefundPath ==
    /\ NothingReturned
    /\ Returned(autoRefund(Money(payments, balance, providerCalls), challenges["c1"], "c1"))

\* PaymentTimeoutChecker.processRefund(userId, amount, challengeId, ..)
SweeperPath(u) ==
    /\ NothingReturned
    /\ Returned(processRefund(Money(payments, balance, providerCalls), u,
                              challenges["c1"].bet_amount, "c1"))

NextRoute ==
    \/ \E u \in Users, isRefund \in BOOLEAN : WithdrawalPath(u, isRefund)
    \/ AutoRefundPath
    \/ \E u \in Users : SweeperPath(u)

SpecRoute == InitWith(Amounts, {Phone}) /\ [][NextRoute]_vars

(***************************************************************************)
(* Payment rows and callbacks                                              *)
(***************************************************************************)
\* C4: a payment's status changes only from pending, and only to completed,
\* failed or cancelled; a row that has left pending never changes again.
StatusMonotonic ==
    [][\A i \in DOMAIN payments :
          payments'[i].status # payments[i].status
             => /\ payments[i].status = "pending"
                /\ payments'[i].status \in {"completed", "failed", "cancelled"}]_vars

\* the step is a callback that repeats the payload of the callback before
\* it, which was applied to an existing payment row
SecondApplication ==
    /\ callbacks' = callbacks + 1
    /\ lastCallback'.payload = lastCallback.payload
    /\ extractRequestId(lastCallback.payload) \in DOMAIN payments
    /\ lastCallback.http = 200 /\ lastCallback.rows = 1

\* C5: the second application of a webhook payload to an existing payment
\* updates no payment row, emits nothing, sets no challenge status and
\* answers 200.
CallbackIdempotent ==
    [][SecondApplication
          => /\ lastCallback'.http = 200
             /\ lastCallback'.rows = 0
             /\ lastCallback'.emits = 0
             /\ ~lastCallback'.setComplete
             /\ payments' = payments
             /\ challenges' = challenges]_vars

\* user u has a completed deposit for challenge id in rows
HasCompletedDeposit(rows, id, u) ==
    \E i \in CompletedDeposits(rows, id) : rows[i].user_id = u

\* C6: whenever handleCallback sets a challenge to deposits_complete, the
\* challenger and the opponent each have a completed deposit for it.
DepositsCompleteBothPaid ==
    [][(callbacks' = callbacks + 1 /\ lastCallback'.setComplete)
          => \A id \in ChallengeIds :
                challenges'[id].status = "deposits_complete"
                   => /\ HasCompletedDeposit(payments', id, challenges'[id].challenger)
                      /\ HasCompletedDeposit(payments', id, challenges'[id].opponent)]_vars

\* C7: on each of the three paths an amount a > 0 is credited to the balance
\* if and only if a < 10 and sent to the provider if and only if a >= 10.
ThresholdRouting ==
    [][LET a == challenges["c1"].bet_amount
       IN  /\ (\E u \in Users : balance'[u] # balance[u]) <=> a < KES(10)
           /\ providerCalls' # providerCalls <=> a >= KES(10)]_vars

(***************************************************************************)
(* The timeout sweeper                                                     *)
(***************************************************************************)
\* the step appends a deposit row
DepositAdded ==
    /\ Len(payments') = Len(payments) + 1
    /\ payments'[Len(payments')].transaction_type = "deposit"

\* challenge id is accepted, staked, has exactly one completed deposit and
\* was accepted more than five minutes ago
PartialTimeoutDue(id) ==
    /\ challenges[id].status = "accepted"
    /\ challenges[id].bet_amount > 0
    /\ challenges[id].payment_status # "completed"
    /\ Cardinality(CompletedDeposits(payments, id)) = 1
    /\ challenges[id].sinceUpdated > 5

\* the step sends exactly one provider payout of amount s to user u
ProviderRefund(u, s) ==
    /\ balance' = balance
    /\ \E r \in DOMAIN payments' :
          /\ providerCalls' = providerCalls \cup {r}
          /\ r \notin providerCalls
          /\ payments'[r].user_id = u
          /\ payments'[r].amount = s

\* the step credits the balance of user u by s and calls no provider
BalanceRefund(u, s) ==
    /\ balance' = [balance EXCEPT ![u] = @ + s]
    /\ providerCalls' = providerCalls

\* C11: a sweep of an accepted challenge with exactly one completed deposit,
\* more than five minutes after acceptance, refunds the stake to the payer
\* once (by the provider from ten shillings, to the balance below) and
\* cancels the challenge, so that no later sweep refunds again.
PartialTimeoutRefunds ==
    [][\A id \in ChallengeIds :
          (PartialTimeoutDue(id) /\ callbacks' = callbacks /\ ~DepositAdded)
             => LET paid == payments[NewestCompleted(id)]
                    s == challenges[id].bet_amount
                IN  /\ challenges'[id].status = "cancelled"
                    /\ IF s >= KES(10)
                       THEN ProviderRefund(paid.user_id, s)
                       ELSE BalanceRefund(paid.user_id, s)]_vars

(***************************************************************************)
(* From the two deposits to the settlement of the match                    *)
(***************************************************************************)
\* the callback of a deposit the provider has collected
Collected(i) == Payload(Oid(TRUE, i), TRUE, Null, NoMessage)

\* user u has asked for a deposit
HasDeposit(u) == \E i \in Deposits : payments[i].user_id = u

\* the challenge has been accepted with a stake of 50.00; both phones known
InitHappy ==
    /\ InitApi
    /\ InitChecker
    /\ InitMoney
    /\ challenges = [c \in ChallengeIds |->
                       Challenge(KES(50), Phone, Phone, "chess.com", "accepted", "pending")]
    /\ ongoing_matches = [m \in Matches |-> MatchRow("c1", FALSE, Null, Null, Null)]
    /\ writes = [m \in Matches |-> 0]

\* the match of a challenge is created and its poller started once both
\* deposits have cleared
MatchStarts(m, tc) ==
    /\ starts[m] = 0
    /\ ChallengeOf(m).status = "deposits_complete"
    /\ StartCheckingMatch(m, tc, Username("u1"))

\* each player deposits once, the provider confirms, and the match is
\* polled from the moment the challenge is deposits_complete
NextHappy ==
    \/ \E u \in Users : ~HasDeposit(u) /\ InitiateDeposit(u, Phone, "c1", TRUE)
    \/ \E i \in RequestIds :
          i \in providerCalls /\ payments[i].status = "pending"
             /\ HandleCallback(Collected(i))
    \/ \E m \in Matches, tc \in TimeControls : MatchStarts(m, tc)
    \/ ChainStep
    \/ QueueStep
    \/ Tick

SpecHappy == InitHappy /\ [][NextHappy]_vars

\* the payout rows of challenge id
Payouts(id) ==
    {i \in DOMAIN payments : /\ payments[i].challenge_id = id
                             /\ payments[i].transaction_type = "payout"}

\* a check of match m (the first one, or a later one) found a decisive
\* result and settled it
DecisiveSettled(m) ==
    /\ ongoing_matches[m].result_checked
    /\ ongoing_matches[m].match_result = "found"
    /\ ongoing_matches[m].winner_id # Null

\* C12: after both deposits have completed by webhook and a check
\* has found a decisive result, the winner has one payout row of twice the
\* stake and the challenge is completed.
HappyPath ==
    \A m \in Matches :
       DecisiveSettled(m)
          => LET id == ongoing_matches[m].challenge_id
             IN  /\ \E i \in Payouts(id) :
                       /\ Payouts(id) = {i}
                       /\ payments[i].user_id = ongoing_matches[m].winner_id
                       /\ payments[i].amount = 2 * StakeOf(m)
                 /\ challenges[id].status = "completed"

(***************************************************************************)
(* The auto-refund of a small stake                                        *)
(***************************************************************************)
\* the step is handleNoResultFound run by chain c
NoResultHandled(c) == chains[c].pc = "refund" /\ chains'[c].pc = "free"

\* the step adds exactly one completed refund row of s for user u
OneRefundRow(u, s) ==
    \E i \in (Len(payments) + 1)..Len(payments') :
       /\ payments'[i].user_id = u
       /\ payments'[i].amount = s
       /\ payments'[i].transaction_type = "refund"
       /\ payments'[i].status = "completed"
       /\ \A j \in (Len(payments) + 1)..Len(payments') :
             payments'[j].user_id = u => j = i

NoIdentifier(payload) ==
    ~payload.originatorRequestId.given /\ payload.message.id = 0

\* the step is a call of handleCallback
CallbackStep == callbacks' = callbacks + 1

\* the callback of the step answered 200 and did nothing
NoOp200 ==
    /\ lastCallback'.http = 200
    /\ lastCallback'.rows = 0
    /\ lastCallback'.emits = 0
    /\ ~lastCallback'.setComplete
    /\ payments' = payments
    /\ challenges' = challenges
    /\ balance' = balance
    /\ emitted' = emitted

NamedId(payload) ==
    IF payload.originatorRequestId.given
    THEN payload.originatorRequestId.id
    ELSE payload.message.id

\* the body asks for a status the CHECK on payments.status refuses
UpdateRefused(payload) == ~payload.transactionReference /\ payload.status = "PENDING"

Failed(i) == Payload(Oid(FALSE, i), FALSE, "FAILED", NoMessage)

\* the happy path, with failure callbacks that arrive late and the sweeper
NextSettle ==
    \/ NextHappy
    \/ \E i \in RequestIds : i \in providerCalls /\ HandleCallback(Failed(i))
    \/ \E id \in ChallengeIds : CheckExpiredPayments(id)

SpecSettle == InitHappy /\ [][NextSettle]_vars

\* the step adds a payout row for challenge id
PayoutInitiated(id) ==
    \E i \in (Len(payments) + 1)..Len(payments') :
       /\ payments'[i].challenge_id = id
       /\ payments'[i].transaction_type \in {"payout", "balance_credit"}

MaxTasks == 3

\* a queue that starts a run for every job, whether one is under way or not
BusyNever(p) == FALSE

\* _processQueue(): if (this.processing) return
Busy(p) == p

\* a request id made anew for the provider request
RequestIdFresh(rows) == Len(rows) + 1

\* const requestId: the id written to the row just inserted into rows is
\* the one the task sends as originatorRequestId
RequestIdOf(rows) == Len(rows)

\* tokenManager.refreshToken(), handedOut tokens having been given so far:
\* a token that no task has had
refreshToken(handedOut) == handedOut + 1

\* this.queue.shift(), and the call of tokenManager.refreshToken()
Shift(q) == [Head(q) EXCEPT !.pc = "token"]

\* enqueueRequest(taskName, taskFn): the job is pushed and _processQueue()
\* runs to its first await: it returns at once when a run is under way, and
\* otherwise takes the oldest job and asks for a token
enqueueRequest(taskName, row) ==
    LET q == Append(payQueue, Job(taskName, row, "none", 0))
    IN  /\ enqueued' = Append(enqueued, row)
        /\ IF Busy(processing)
           THEN /\ payQueue' = q
                /\ UNCHANGED <<processing, running>>
           ELSE /\ processing' = TRUE
                /\ running' = running \cup {Shift(q)}
                /\ payQueue' = Tail(q)
        /\ UNCHANGED <<tokens, issued, returned>>

\* the end of one turn of the while loop of _processQueue(), j being done:
\* the next job is taken, or this.processing = false
LoopOn(j) ==
    IF payQueue # <<>>
    THEN /\ running' = (running \ {j}) \cup {Shift(payQueue)}
         /\ payQueue' = Tail(payQueue)
         /\ UNCHANGED processing
    ELSE /\ running' = running \ {j}
         /\ processing' = FALSE
         /\ UNCHANGED payQueue

Return(row, value) ==
    returned' = [i \in DOMAIN returned \cup {row} |->
                    IF i = row THEN value ELSE returned[i]]

\* initiateDeposit(phoneNumber, amount, userId, challengeId) up to its await
\* of enqueueRequest: the pending row is inserted, then the task is queued
DepositCalled(u, id) ==
    /\ Len(payments) < MaxTasks
    /\ payments' = Append(payments,
                      Row(u, id, normalizePhoneNumber(Phone), challenges[id].bet_amount,
                          "deposit", "pending"))
    /\ enqueueRequest("deposit", RequestIdOf(payments'))
    /\ UNCHANGED <<apiVars, checkerVars, ongoing_matches, writes, challenges, balance,
                   providerCalls, emitted, callbacks, lastCallback, sweepVars, extraVars, clientVars>>

\* the rows and the balance of out are written, and its provider request,
\* if it has one, is queued
Requested(out) ==
    /\ payments' = out.payments
    /\ balance' = out.balance
    /\ IF out.providerCalls # providerCalls
       THEN enqueueRequest("withdraw", RequestIdOf(payments'))
       ELSE UNCHANGED gatewayVars
    /\ UNCHANGED <<apiVars, checkerVars, ongoing_matches, writes, challenges,
                   providerCalls, emitted, callbacks, lastCallback, sweepVars, extraVars, clientVars>>

\* initiateWithdrawal(phoneNumber, amount, userId, challengeId, isRefund) up
\* to its await of enqueueRequest, or to its end on the balance path
WithdrawalCalled(u, amount, id, isRefund) ==
    /\ Len(payments) < MaxTasks
    /\ Requested(initiateWithdrawal(Money(payments, balance, providerCalls), Phone,
                                    amount, u, id, isRefund))

\* PaymentTimeoutChecker.initiateWithdrawal(userId, amount, challengeId, ..)
SweeperWithdrawalCalled(u, amount, id) ==
    /\ Len(payments) < MaxTasks
    /\ Requested(sweeperWithdrawal(Money(payments, balance, providerCalls), u, amount, id))

\* tokenManager.refreshToken() has answered the run working on j: with a
\* token, and the task sends its request to the provider, or with an error,
\* which rejects the job and is returned by initiate.. as a failure
TokenRefreshed(j, ok) ==
    /\ j \in running /\ j.pc = "token"
    /\ IF ok
       THEN /\ tokens' = refreshToken(tokens)
            /\ running' = (running \ {j}) \cup {[j EXCEPT !.pc = "post", !.token = tokens']}
            /\ providerCalls' = providerCalls \cup {j.row}
            /\ issued' = Append(issued, [row |-> j.row, token |-> tokens'])
            /\ UNCHANGED <<payQueue, processing, returned>>
       ELSE /\ LoopOn(j)
            /\ Return(j.row, "failure")
            /\ UNCHANGED <<tokens, providerCalls, issued>>
    /\ UNCHANGED <<apiVars, checkerVars, ongoing_matches, writes, challenges, payments,
                   balance, emitted, callbacks, lastCallback, sweepVars, extraVars, clientVars, enqueued>>

\* the provider has answered the request of j. An error response rejects
\* the job; the catch of initiateDeposit then names requestId, which is
\* declared inside the try block, so its UPDATE to 'failed' is never sent
\* and the ReferenceError is caught and logged
ProviderAnswered(j, ok) ==
    /\ j \in running /\ j.pc = "post"
    /\ LoopOn(j)
    /\ Return(j.row, IF ok THEN "success" ELSE "failure")
    /\ UNCHANGED <<apiVars, checkerVars, ongoing_matches, writes, challenges, payments,
                   balance, providerCalls, emitted, callbacks, lastCallback, sweepVars, extraVars, clientVars, tokens,
                   enqueued, issued>>

Jobs == {Job(n, r, pc, t) : n \in {"deposit", "withdraw"}, r \in 1..MaxTasks,
                            pc \in {"token", "post"}, t \in 0..MaxTasks}

NextGateway ==
    \/ \E u \in Users : DepositCalled(u, "c1")
    \/ \E amount \in {KES(5), KES(50)}, isRefund \in BOOLEAN :
          WithdrawalCalled("u1", amount, "c1", isRefund)
    \/ SweeperWithdrawalCalled("u2", KES(50), "c1")
    \/ \E j \in Jobs, ok \in BOOLEAN : TokenRefreshed(j, ok)
    \/ \E j \in Jobs, ok \in BOOLEAN : ProviderAnswered(j, ok)

SpecGateway == InitHappy /\ [][NextGateway]_vars

\* the request for row i is sent to the provider in this step
ProviderCallIssued(i) == i \in providerCalls' /\ i \notin providerCalls

\* C17: whenever a request is sent to the provider, for a deposit, a payout
\* or a refund, the payment row carrying its request id was written before
\* that step and is pending; no request is sent for an id that has no row
PreCreationOrdering ==
    [][\A i \in 1..(MaxTasks + 1) :
          ProviderCallIssued(i)
          => /\ i \in DOMAIN payments
             /\ payments[i].status = "pending"
             /\ payments[i].transaction_type \in {"deposit", "payout", "refund"}]_vars

\* requests have been sent for a deposit and for a withdrawal
CalledForDepositAndWithdrawal ==
    /\ \E i \in providerCalls : payments[i].transaction_type = "deposit"
    /\ \E i \in providerCalls : payments[i].transaction_type \in {"payout", "refund"}

\* the provider answered the request of deposit row i with an error
DepositRejected(i) ==
    /\ i \in DOMAIN returned /\ returned[i] = "failure"
    /\ i \in providerCalls
    /\ payments[i].transaction_type = "deposit"

\* C18: a deposit whose provider request was answered with an error ends
\* with status failed, and initiateDeposit has returned a failure
FailedDepositMarked ==
    \A i \in DOMAIN payments : DepositRejected(i) => payments[i].status = "failed"

Pos(seq, x) == CHOOSE i \in DOMAIN seq : seq[i] = x

\* C19: at most one task of the queue runs at any time, requests go to the
\* provider in the order the tasks were enqueued, deposits and withdrawals
\* alike, and each is sent with a token of its own, handed out after the
\* task before it had finished
GatewaySerialized ==
    /\ Cardinality(running) <= 1
    /\ \A a, b \in DOMAIN issued :
          a < b => Pos(enqueued, issued[a].row) < Pos(enqueued, issued[b].row)
    /\ \A a, b \in DOMAIN issued : a # b => issued[a].token # issued[b].token
    /\ \A j \in running : j.token = (IF j.pc = "post" THEN tokens ELSE 0)

\* a withdrawal waited in the queue while a deposit was with the provider,
\* and has now been sent in its turn
WithdrawalSentAfterDeposit ==
    /\ Len(issued) >= 2
    /\ payments[issued[1].row].transaction_type = "deposit"
    /\ payments[issued[2].row].transaction_type \in {"payout", "refund"}
    /\ \E j \in running : j.row = issued[2].row /\ j.pc = "post"
    /\ payQueue # <<>>

(***************************************************************************)
(* ChessComApiQueue with cleanup(): every run of processQueue() on its own *)
(***************************************************************************)
MaxRequests == 3
MaxCleanups == 1

\* cleanup() stops nothing that is under way, so runs of processQueue() can
\* overlap: each has a number, the item it shifted (n: the how-manyth item
\* pushed) and a phase: "wait" (the sleep before the request), "http" (the
\* request is with the API) or "timer" (the 200 ms timer is pending)
RunIds == 1..(MaxCleanups + 1)
ItemN(c, url, get, n) == [caller |-> c, key |-> url, get |-> get, n |-> n]
Run(id, item, phase) == [id |-> id, item |-> item, phase |-> phase]
FreeIds == RunIds \ {r.id : r \in runs}

\* the requests that are with the API
InFlight == {r \in runs : r.phase = "http"}

\* processQueue() of run id, the other runs being rest, entered with queue q
processQueueRun(id, rest, q) ==
    IF q = <<>>
    THEN /\ isProcessing' = FALSE
         /\ queue' = q
         /\ runs' = rest
         /\ UNCHANGED <<sinceLastRequest, dispatched>>
    ELSE /\ isProcessing' = TRUE
         /\ queue' = Tail(q)
         /\ \/ /\ sinceLastRequest = 0      \* timeSinceLastRequest < requestDelay
               /\ runs' = rest \cup {Run(id, Head(q), "wait")}
               /\ UNCHANGED <<sinceLastRequest, dispatched>>
            \/ /\ runs' = rest \cup {Run(id, Head(q), "http")}
               /\ sinceLastRequest' = 0
               /\ dispatched' = Append(dispatched, Head(q).n)

\* request(config, cacheType) called by c for url
Request(c, url, get) ==
    /\ reqState[c].st # "waiting"
    /\ rateLimitedUntil' = ExpireLimit(rateLimitedUntil)
    /\ IF isRateLimitedApi(rateLimitedUntil)
       THEN /\ reqState' = [reqState EXCEPT ![c] = Rejected("ratelimited")]
            /\ UNCHANGED <<queue, isProcessing, cache, sinceLastRequest, clientVars>>
       ELSE IF get /\ CacheHit(cache[url])
       THEN /\ reqState' = [reqState EXCEPT ![c] = Resolved(cache[url].response, "cache")]
            /\ UNCHANGED <<queue, isProcessing, cache, sinceLastRequest, clientVars>>
       ELSE /\ requests < MaxRequests
            /\ requests' = requests + 1
            /\ cache' = IF get THEN [cache EXCEPT ![url] = NoEntry] ELSE cache
            /\ reqState' = [reqState EXCEPT ![c] = Waiting]
            /\ LET q == Append(queue, ItemN(c, url, get, requests + 1))
               IN  IF isProcessing
                   THEN /\ queue' = q
                        /\ UNCHANGED <<isProcessing, sinceLastRequest, runs, dispatched>>
                   ELSE \E id \in FreeIds :
                           /\ \A other \in FreeIds : id <= other
                           /\ processQueueRun(id, runs, q)
            /\ UNCHANGED cleanups
    /\ UNCHANGED <<cur, procTimer, since429, checkerVars, ongoing_matches, writes,
                   challenges, payments, balance, providerCalls, emitted, callbacks,
                   lastCallback, gatewayVars, sweepVars, extraVars>>

\* the sleep of run r is over: this.api(item.config) is called
RunWaitDone(r) ==
    /\ r \in runs /\ r.phase = "wait"
    /\ runs' = (runs \ {r}) \cup {Run(r.id, r.item, "http")}
    /\ sinceLastRequest' = 0
    /\ dispatched' = Append(dispatched, r.item.n)
    /\ UNCHANGED <<queue, isProcessing, cur, procTimer, rateLimitedUntil, cache, reqState,
                   since429, requests, cleanups, checkerVars, ongoing_matches, writes,
                   challenges, payments, balance, providerCalls, emitted, callbacks,
                   lastCallback, gatewayVars, sweepVars, extraVars>>

\* the API answers the request of run r: with data, with 410 or 429, or
\* with another error; the run sets its 200 ms timer
RunAnswered(r, answer) ==
    /\ r \in runs /\ r.phase = "http"
    /\ runs' = (runs \ {r}) \cup {Run(r.id, r.item, "timer")}
    /\ IF answer = "ok"
       THEN /\ cache' = IF r.item.get
                        THEN [cache EXCEPT ![r.item.key] =
                                [present |-> TRUE, age |-> 0,
                                 ttl |-> getCacheTTL(r.item.key), response |-> Resp("data")]]
                        ELSE cache
            /\ reqState' = [reqState EXCEPT ![r.item.caller] = Resolved(Resp("data"), "http")]
            /\ UNCHANGED <<queue, rateLimitedUntil, since429>>
       ELSE IF answer = "429"
       THEN /\ setRateLimitApi
            /\ since429' = 0
            /\ reqState' = [reqState EXCEPT ![r.item.caller] = Rejected("http429")]
            /\ UNCHANGED cache
       ELSE /\ reqState' = [reqState EXCEPT ![r.item.caller] = Rejected("error")]
            /\ UNCHANGED <<queue, rateLimitedUntil, since429, cache>>
    /\ UNCHANGED <<isProcessing, cur, procTimer, sinceLastRequest, requests, dispatched,
                   cleanups, checkerVars, ongoing_matches, writes, challenges, payments,
                   balance, providerCalls, emitted, callbacks, lastCallback, sweepVars, extraVars, gatewayVars>>

\* the 200 ms timer of run r fires: processQueue()
RunTimerFires(r) ==
    /\ r \in runs /\ r.phase = "timer"
    /\ processQueueRun(r.id, runs \ {r}, queue)
    /\ UNCHANGED <<cur, procTimer, rateLimitedUntil, cache, reqState, since429, requests,
                   cleanups, checkerVars, ongoing_matches, writes, challenges, payments,
                   balance, providerCalls, emitted, callbacks, lastCallback, sweepVars, extraVars, gatewayVars>>

\* cleanup(), on SIGTERM or SIGINT: what is queued is rejected, the queue
\* and the cache are emptied and isProcessing is set to false; a request
\* that is with the API and a timer that is pending are left as they are
Cleanup ==
    /\ cleanups < MaxCleanups
    /\ cleanups' = cleanups + 1
    /\ reqState' = [c \in Callers |->
                      IF \E i \in DOMAIN queue : queue[i].caller = c
                      THEN Rejected("shutdown") ELSE reqState[c]]
    /\ queue' = <<>>
    /\ cache' = [u \in Urls |-> NoEntry]
    /\ isProcessing' = FALSE
    /\ UNCHANGED <<cur, procTimer, rateLimitedUntil, sinceLastRequest, since429, runs,
                   requests, dispatched, checkerVars, ongoing_matches, writes, challenges,
                   payments, balance, providerCalls, emitted, callbacks, lastCallback, sweepVars, extraVars,
                   gatewayVars>>

AllRuns == {Run(id, ItemN(c, url, url # UrlRecent, n), phase) :
            id \in RunIds, c \in Others, url \in {UrlStats, UrlRecent},
            n \in 1..MaxRequests, phase \in {"wait", "http", "timer"}}

NextClient ==
    \/ \E c \in Others, url \in {UrlStats, UrlRecent} : Request(c, url, url # UrlRecent)
    \/ \E r \in AllRuns : RunWaitDone(r)
    \/ \E r \in AllRuns, answer \in {"ok", "429", "error"} : RunAnswered(r, answer)
    \/ \E r \in AllRuns : RunTimerFires(r)
    \/ Cleanup
    \/ runs = {} /\ Tick

SpecClient == InitWith({KES(50)}, {Phone}) /\ [][NextClient]_vars

\* C20: at most one request is with the game-result API at any time, and
\* the requests are sent in the order in which they were queued
ClientSerialized ==
    /\ Cardinality(InFlight) <= 1
    /\ \A a, b \in DOMAIN dispatched : a < b => dispatched[a] < dispatched[b]

\* one match, started once, polled under every API outcome, and stopped by
\* hand at any moment after its start
NextStop ==
    \/ \E m \in Matches, tc \in TimeControls, name \in Names :
          starts[m] = 0 /\ StartCheckingMatch(m, tc, name)
    \/ \E m \in Matches : starts[m] > 0 /\ ManualStopCheck(m)
    \/ ChainStep
    \/ QueueStep
    \/ Http429
    \/ HttpError
    \/ Tick

SpecStop == Init /\ [][NextStop]_vars

\* C21: once manualStopCheck(matchId) has returned, the match has no timer
\* registered again, no result query is made for it, and it is neither
\* settled nor refunded
StopIsFinal ==
    [][\A m \in Matches :
          stopped[m]
          => /\ ~activeCheckers'[m].set
             /\ \A c \in Chains :
                   (chains'[c].match = m /\ chains'[c].pc \in {"archives", "games"})
                   => chains[c].pc \in {"archives", "games"}
             /\ ongoing_matches'[m] = ongoing_matches[m]
             /\ payments' = payments
             /\ balance' = balance]_vars

(***************************************************************************)
(* initiateWithdrawal below the minimum payout, one database step at a time *)
(***************************************************************************)
MaxCredits == 2

\* lines 316-375 of initiateWithdrawal for an amount below MINIMUM_PAYOUT:
\* the completed row is inserted, then users.balance is raised, as two
\* statements of their own; inserted and credited say whether each query
\* succeeded. A query that throws ends the function in its catch block
creditToBalance(st, phoneNumber, amount, userId, challengeId, isRefund, inserted, credited) ==
    LET row == Row(userId, challengeId, normalizePhoneNumber(phoneNumber), amount,
                   IF isRefund THEN "refund" ELSE "balance_credit", "completed")
        recorded == Money(Append(st.payments, row), st.balance, st.providerCalls)
    IN  IF ~inserted THEN st
        ELSE IF ~credited THEN recorded
        ELSE Money(recorded.payments, [st.balance EXCEPT ![userId] = @ + amount],
                   st.providerCalls)

\* initiateWithdrawal(phone, amount, userId, challengeId, isRefund) with
\* database queries that can fail
WithdrawalWithFaults(u, amount, isRefund, inserted, credited) ==
    /\ Len(payments) < MaxCredits
    /\ Returned(IF BelowMinimumPayout(amount)
                THEN creditToBalance(Money(payments, balance, providerCalls), Phone,
                                     amount, u, "c1", isRefund, inserted, credited)
                ELSE initiateWithdrawal(Money(payments, balance, providerCalls), Phone,
                                        amount, u, "c1", isRefund))

NextCredit ==
    \E u \in Users, isRefund, inserted, credited \in BOOLEAN :
       WithdrawalWithFaults(u, challenges["c1"].bet_amount, isRefund, inserted, credited)

SpecCredit == InitWith(Amounts, {Phone}) /\ [][NextCredit]_vars

\* what the completed balance_credit and refund rows of user u add up to
RECURSIVE CompletedCredits(_, _)
CompletedCredits(rows, u) ==
    IF rows = <<>> THEN 0
    ELSE (IF /\ Head(rows).user_id = u
             /\ Head(rows).status = "completed"
             /\ Head(rows).transaction_type \in {"balance_credit", "refund"}
          THEN Head(rows).amount ELSE 0) + CompletedCredits(Tail(rows), u)

\* C22: a withdrawal below 10.00 makes no provider call, and a user's
\* balance has been raised by the amount exactly when the completed
\* balance_credit or refund row for it exists, whichever query failed
SubThresholdAtomic ==
    /\ \A i \in providerCalls : ~BelowMinimumPayout(payments[i].amount)
    /\ \A u \in Users : balance[u] = CompletedCredits(payments, u)

\* the request of chain c was answered with 410 or 429
Answered429(c) == reqState[c].st = "rejected" /\ reqState[c].why = "http429"

CooldownActive ==
    \/ (checkerLimitedUntil # NoTime /\ checkerLimitedUntil > 0)
    \/ (rateLimitedUntil # NoTime /\ rateLimitedUntil > 0)

\* the timer of chain c fires in this step, below the attempt budget
CheckFires(c) ==
    /\ chains[c].pc = "timer" /\ chains[c].due = 0
    /\ chains[c].checkCount < maxChecksPerMatch
    /\ chains'[c] # chains[c]
    /\ chains'[c].pc # "free"

\* C24: a check that fires during a cooldown makes no API query and uses no
\* attempt: it is set again, with the same count, for the end of the cooldown
CooldownPostpones ==
    [][\A c \in Chains :
          (CheckFires(c) /\ CooldownActive)
          => /\ chains'[c].pc = "timer"
             /\ chains'[c].checkCount = chains[c].checkCount
             /\ chains'[c].due \in {checkerLimitedUntil, rateLimitedUntil} \ {NoTime}
             /\ reqState'[c] = reqState[c]]_vars

\* the query of chain c has raised a rate-limit error: the API answered 410
\* or 429, or request() refused the call because its cooldown is running
RateLimitRaised(c) ==
    /\ chains[c].pc \in {"archives", "games"}
    /\ reqState[c].st = "rejected"
    /\ reqState[c].why \in {"http429", "ratelimited"}

\* C25: a check whose query raised a rate-limit error sets the poller's
\* cooldown and comes back after the full cooldown, not after the ordinary
\* 2-minute interval
RateLimitPauses ==
    [][\A c \in Chains :
          (RateLimitRaised(c) /\ chains'[c] # chains[c])
          => /\ checkerLimitedUntil' = rateLimitDuration
             /\ chains'[c].pc = "timer"
             /\ chains'[c].due = rateLimitDuration]_vars

(***************************************************************************)
(* The settlement of one game, for every pair of result codes              *)
(***************************************************************************)
\* a result code that the checker knows nothing of
Unrecognized == "kingofthehill"

\* the games the monthly archive can hold for the two players
PairGames == {Game(w, wr, br) : w \in {"challenger", "opponent"},
                                wr, br \in Codes \cup {Unrecognized}}

\* the second request of a check has just been answered with a game: the
\* answer is in the cache and in the hands of the check
InitRule ==
    /\ \E game \in PairGames :
          /\ cache = [u \in Urls |->
                        IF u = UrlMonthly
                        THEN [present |-> TRUE, age |-> 0, ttl |-> getCacheTTL(u),
                              response |-> game]
                        ELSE NoEntry]
          /\ reqState = [c \in Callers |-> IF c = 1 THEN Resolved(game, "http") ELSE Idle]
    /\ queue = <<>> /\ isProcessing = TRUE /\ cur = NoItem /\ procTimer = TRUE
    /\ rateLimitedUntil = NoTime /\ sinceLastRequest = 0 /\ since429 = NoTime
    /\ runs = {} /\ requests = 0 /\ dispatched = <<>> /\ cleanups = 0
    /\ chains = [c \in Chains |->
                   IF c = 1
                   THEN [pc |-> "games", match |-> "m1", checkCount |-> 0, due |-> NoTime,
                         players |-> [challenger |-> Username("u1"),
                                      opponent |-> Username("u2"),
                                      platform |-> "chess.com"],
                         found |-> NoFound]
                   ELSE FreeChain]
    /\ activeCheckers = [m \in Matches |-> [set |-> TRUE, timeoutId |-> 1, checkCount |-> 0]]
    /\ checkerLimitedUntil = NoTime
    /\ starts = [m \in Matches |-> 1]
    /\ stopped = [m \in Matches |-> FALSE]
    /\ InitMoney
    /\ \E bet \in {KES(5), KES(50)} :
          challenges = [c \in ChallengeIds |->
                          Challenge(bet, Phone, Phone, "chess.com", "deposits_complete",
                                    "pending")]
    /\ ongoing_matches = [m \in Matches |-> MatchRow("c1", FALSE, Null, Null, Null)]
    /\ writes = [m \in Matches |-> 0]

NextRule ==
    \/ \E c \in Chains : ChainResumes(c)
    \/ \E c \in Chains : ProcessMatchResult(c)

SpecRule == InitRule /\ [][NextRule]_vars

\* the game that is being settled
TheGame == cache[UrlMonthly].response
ChallengerResult(g) == IF g.white = "challenger" THEN g.wres ELSE g.bres
OpponentResult(g) == IF g.white = "challenger" THEN g.bres ELSE g.wres

\* the player whose colour has the winning outcome, if one has
WinnerOf(g) ==
    IF ChallengerResult(g) = "win" /\ OpponentResult(g) # "win" THEN "u1"
    ELSE IF OpponentResult(g) = "win" /\ ChallengerResult(g) # "win" THEN "u2"
    ELSE Null

PaidTo(i, u, amount, types) ==
    /\ payments[i].user_id = u
    /\ payments[i].amount = amount
    /\ payments[i].transaction_type \in types

\* C26: a settled game with a winning colour has paid twice the stake to
\* that player and to nobody else; any other pair of outcomes, an
\* unrecognised one included, has refunded the stake to each player
SettlementRule ==
    ongoing_matches["m1"].result_checked
    => LET stake == challenges["c1"].bet_amount
           w == WinnerOf(TheGame)
       IN  IF w # Null
           THEN /\ Len(payments) = 1
                /\ PaidTo(1, w, 2 * stake, {"payout", "balance_credit"})
           ELSE /\ Len(payments) = 2
                /\ \E i, j \in 1..2 :
                      /\ PaidTo(i, "u1", stake, {"refund"})
                      /\ PaidTo(j, "u2", stake, {"refund"})

\* the winner's name matched neither stored username: a game that one
\* colour has won was settled without a winner id
WinnerUnresolved(m) ==
    /\ ongoing_matches[m].result_checked
    /\ ongoing_matches[m].match_result = "found"
    /\ ongoing_matches[m].result \in decisiveResults \cup {"win"}
    /\ ongoing_matches[m].winner_id = Null

\* C27: a decisive payout goes to the user whose stored username is that of
\* the winning colour, and when no winner id could be resolved no player is
\* paid twice the stake
WinnerResolution ==
    \A m \in Matches :
       /\ WinnerUnresolved(m)
          => \A i \in DOMAIN payments :
                ~(payments[i].transaction_type \in {"payout", "balance_credit"}
                  /\ payments[i].amount = 2 * StakeOf(m))
       /\ (ongoing_matches[m].result_checked /\ ongoing_matches[m].winner_id # Null)
          => \A i \in DOMAIN payments :
                payments[i].transaction_type \in {"payout", "balance_credit"}
                => payments[i].user_id = ongoing_matches[m].winner_id


(***************************************************************************)
(* The outcome of handleNoResultFound                                      *)
(***************************************************************************)
\* after the step no chain of match m is waiting, asking or settling
NoLaterPoll(m) ==
    /\ ~activeCheckers'[m].set
    /\ \A c \in Chains : chains'[c].pc = "free" \/ chains'[c].match # m

\* C28: when the attempts of a match have run out, handleNoResultFound marks
\* a match without a stake result_checked and changes no balance, no payment
\* row and no provider call; it marks a staked match result_checked with the
\* outcome no_result; in both cases no poll of the match remains.
AutoRefundOutcome ==
    [][\A c \in Chains :
          LET m == chains[c].match
              s == ChallengeOf(m).bet_amount
          IN  NoResultHandled(c)
                 => /\ ongoing_matches'[m].result_checked
                    /\ s = 0 => UNCHANGED moneyVars
                    /\ s > 0 => ongoing_matches'[m].match_result = "no_result"
                    /\ NoLaterPoll(m)]_vars


(***************************************************************************)
(* The full expiry of a challenge nobody paid for                          *)
(***************************************************************************)
\* the step is a run of the sweeper that looks at challenge id
SweepStep(id) == sweeps' # sweeps /\ SweeperSelects(challenges[id])

Faults == {"none", "query", "handler", "update"}

\* checkExpiredPayments(): the SELECT returns rows in the cases found
CheckExpiredPaymentsRuns(found) ==
    /\ ~cycle.active
    /\ cycle' = [active |-> TRUE, rows |-> [i \in Selected |-> i], found |-> found]
    /\ outcome' = [id \in Selected |-> "waiting"]
    /\ UNCHANGED <<apiVars, checkerVars, ongoing_matches, writes, challenges, moneyVars,
                   emitted, callbacks, lastCallback, gatewayVars, clientVars, extraVars, sweeps,
                   pollers>>

\* await this.processExpiredChallenge(challenge) for the next row: the two
\* handlers catch what they throw, the queries of processExpiredChallenge
\* itself throw into the catch of checkExpiredPayments, which ends the loop
ProcessExpiredChallenge(fault) ==
    /\ cycle.active
    /\ cycle.rows # <<>>
    /\ LET id == Head(cycle.rows)
           case == cycle.found[id]
           done == CASE case = "partial" ->
                           IF fault = "handler" THEN "error" ELSE "refunded"
                     [] case = "full" ->
                           IF fault = "handler" THEN "error" ELSE "cancelled"
                     [] case = "paid" -> "completed"
                     [] OTHER -> "untouched"
       IN IF fault = "query" \/ (fault = "update" /\ case = "paid")
          THEN /\ cycle' = [cycle EXCEPT !.active = FALSE, !.rows = <<>>]
               /\ outcome' = [outcome EXCEPT ![id] = "error"]
          ELSE /\ cycle' = [cycle EXCEPT !.rows = Tail(@)]
               /\ outcome' = [outcome EXCEPT ![id] = done]
    /\ UNCHANGED <<apiVars, checkerVars, ongoing_matches, writes, challenges, moneyVars,
                   emitted, callbacks, lastCallback, gatewayVars, clientVars, extraVars, sweeps,
                   pollers>>

\* the loop of checkExpiredPayments() is through
CycleEnds ==
    /\ cycle.active
    /\ cycle.rows = <<>>
    /\ cycle' = [cycle EXCEPT !.active = FALSE]
    /\ UNCHANGED <<apiVars, checkerVars, ongoing_matches, writes, challenges, moneyVars,
                   emitted, callbacks, lastCallback, gatewayVars, clientVars, extraVars, sweeps,
                   outcome, pollers>>

\* startCheckingMatch(matchId) for one of several matches
PollerStarts(m) ==
    /\ pollers[m] = "idle"
    /\ pollers' = [pollers EXCEPT ![m] = "polling"]
    /\ UNCHANGED <<apiVars, checkerVars, ongoing_matches, writes, challenges, moneyVars,
                   emitted, callbacks, lastCallback, gatewayVars, clientVars, extraVars, sweeps,
                   cycle, outcome>>

\* processMatchResult(matchId, result) catches a database or provider error
\* and logs it; stopCheckingMatch(matchId) follows in both cases
SettleMatch(m, fault) ==
    /\ pollers[m] = "polling"
    /\ pollers' = [pollers EXCEPT ![m] = IF fault = "none" THEN "settled" ELSE "error"]
    /\ UNCHANGED <<apiVars, checkerVars, ongoing_matches, writes, challenges, moneyVars,
                   emitted, callbacks, lastCallback, gatewayVars, clientVars, extraVars, sweeps,
                   cycle, outcome>>

NextIsolate ==
    \/ \E found \in [Selected -> Cases] : CheckExpiredPaymentsRuns(found)
    \/ \E fault \in Faults : ProcessExpiredChallenge(fault)
    \/ CycleEnds
    \/ \E m \in Polled : PollerStarts(m)
    \/ \E m \in Polled, fault \in {"none", "database", "provider"} : SettleMatch(m, fault)

SpecIsolate == InitPay /\ [][NextIsolate]_vars

\* C30: a failure while one challenge of a sweep is processed, or while one
\* match is settled, stays inside that challenge or match: when the run of
\* the sweeper ends every challenge it selected has been processed, and the
\* end of one match's poller leaves the pollers of the other matches alone.
ErrorIsolation ==
    [][/\ (cycle.active /\ ~cycle'.active)
           => \A id \in Selected : outcome'[id] # "waiting"
       /\ \A m \in Polled :
             (pollers[m] = "polling" /\ pollers'[m] # "polling")
                => \A n \in Polled \ {m} : pollers'[n] = pollers[n]]_vars


(***************************************************************************)
(* Arguments that are not numbers                                          *)
(***************************************************************************)
MaxCalls == 2

\* a number, or NaN
Num(n) == [nan |-> FALSE, n |-> n]
NaN == [nan |-> TRUE, n |-> 0]

\* what callers pass for userId, challengeId and amount
RawIds == {"1", "1abc", "abc", "undefined"}
RawAmounts == {"5", "50", "50abc", "abc"}

\* Number(x) on the values of the model: the whole text has to be a number
NumberOf(x) ==
    IF x = "1" THEN Num(1)
    ELSE IF x = "5" THEN Num(5)
    ELSE IF x = "50" THEN Num(50)
    ELSE NaN

\* parseInt(x) on the values of the model: the digits the text begins with
parseIntOf(x) ==
    IF x \in {"1", "1abc"} THEN Num(1)
    ELSE IF x = "5" THEN Num(5)
    ELSE IF x \in {"50", "50abc"} THEN Num(50)
    ELSE NaN

\* the rows users.id = 1 and challenges.id = 1
UserOfId(n) == IF n = 1 THEN "u1" ELSE Null
ChallengeOfId(n) == IF n = 1 THEN "c1" ELSE Null

\* initiateDeposit(phoneNumber, amount, userId, challengeId) with the
\* arguments as given: Number() of each, a throw on NaN, then INSERT and call
DepositWith(userId, challengeId, amount, accepted) ==
    /\ lastCall.n < MaxCalls
    /\ LET numericUserId == NumberOf(userId)
           numericChallengeId == NumberOf(challengeId)
           numericAmount == NumberOf(amount)
       IN IF numericUserId.nan \/ numericChallengeId.nan \/ numericAmount.nan
          THEN /\ lastCall' = Call(lastCall.n + 1, "initiateDeposit", userId, challengeId,
                                   amount, FALSE)
               /\ UNCHANGED moneyVars
          ELSE /\ payments' = Append(payments,
                                 Row(UserOfId(numericUserId.n),
                                     ChallengeOfId(numericChallengeId.n),
                                     normalizePhoneNumber(Phone), KES(numericAmount.n),
                                     "deposit", "pending"))
               /\ providerCalls' = IF accepted THEN providerCalls \cup {Len(payments) + 1}
                                   ELSE providerCalls
               /\ UNCHANGED balance
               /\ lastCall' = Call(lastCall.n + 1, "initiateDeposit", userId, challengeId,
                                   amount, accepted)
    /\ UNCHANGED <<apiVars, checkerVars, ongoing_matches, writes, challenges, emitted,
                   callbacks, lastCallback, gatewayVars, clientVars, sweepVars, sweep, timing, rq, webhook>>

\* initiateWithdrawal(phoneNumber, amount, userId, challengeId, isRefund)
\* with the arguments as given: parseInt() of the ids, Number() of the amount
WithdrawalWith(userId, challengeId, amount, isRefund) ==
    /\ lastCall.n < MaxCalls
    /\ LET numericUserId == parseIntOf(userId)
           numericChallengeId == parseIntOf(challengeId)
           numericAmount == NumberOf(amount)
           st == Money(payments, balance, providerCalls)
           out == IF numericUserId.nan \/ numericChallengeId.nan \/ numericAmount.nan
                  THEN st
                  ELSE initiateWithdrawal(st, Phone, KES(numericAmount.n),
                                          UserOfId(numericUserId.n),
                                          ChallengeOfId(numericChallengeId.n), isRefund)
       IN /\ payments' = out.payments
          /\ balance' = out.balance
          /\ providerCalls' = out.providerCalls
          /\ lastCall' = Call(lastCall.n + 1, "initiateWithdrawal", userId, challengeId,
                              amount, out # st)
    /\ UNCHANGED <<apiVars, checkerVars, ongoing_matches, writes, challenges, emitted,
                   callbacks, lastCallback, gatewayVars, clientVars, sweepVars, sweep, timing, rq, webhook>>

NextValidate ==
    \/ \E userId \in RawIds, challengeId \in RawIds, amount \in RawAmounts,
          accepted \in BOOLEAN : DepositWith(userId, challengeId, amount, accepted)
    \/ \E userId \in RawIds, challengeId \in RawIds, amount \in RawAmounts,
          isRefund \in BOOLEAN : WithdrawalWith(userId, challengeId, amount, isRefund)

SpecValidate == InitPay /\ [][NextValidate]_vars

\* the text is a number from its first character to its last
Numeric(x) == x \in {"1", "5", "50"}

\* C31: a call of initiateDeposit or initiateWithdrawal with a userId, a
\* challengeId or an amount that is not a number returns success: false and
\* writes no payment row, changes no balance and calls no provider.
ValidationBeforeEffects ==
    [][(lastCall'.n = lastCall.n + 1
           /\ ~(Numeric(lastCall'.userId) /\ Numeric(lastCall'.challengeId)
                   /\ Numeric(lastCall'.amount)))
          => /\ ~lastCall'.success
             /\ UNCHANGED moneyVars]_vars


(***************************************************************************)
(* The order of the challenge statuses                                     *)
(***************************************************************************)
\* pending, accepted, deposits_complete, then completed or cancelled
StatusRank(status) ==
    CASE status = "pending" -> 0
      [] status = "accepted" -> 1
      [] status = "deposits_complete" -> 2
      [] OTHER -> 3

\* C32: the status of a challenge only advances along pending, accepted,
\* deposits_complete, completed/cancelled: a completed or cancelled challenge
\* keeps its status, whatever callback arrives afterwards.
StatusNeverLeavesTerminal ==
    [][\A id \in ChallengeIds :
          /\ StatusRank(challenges'[id].status) >= StatusRank(challenges[id].status)
          /\ challenges[id].status \in {"completed", "cancelled"}
                => challenges'[id].status = challenges[id].status]_vars


(***************************************************************************)
(* A sweep and the callbacks that arrive while it runs                     *)
(***************************************************************************)
\* processExpiredChallenge(challenge) up to its branch: the SELECT of the
\* deposits and the comparison of the elapsed time
SweepReads(id) ==
    /\ sweep.pc = "idle"
    /\ SweeperSelects(challenges[id])
    /\ LET completed == Cardinality(CompletedDeposits(payments, id))
           since == challenges[id].sinceUpdated
       IN sweep' = IF completed = 1 /\ since > partialPaymentTimeout
                   THEN Found("read", "partial", NewestCompleted(id))
                   ELSE IF completed = 0 /\ since > fullExpiryTimeout
                   THEN Found("read", "full", 0)
                   ELSE IF completed = 2
                   THEN Found("read", "paid", 0)
                   ELSE Found("read", "open", 0)
    /\ UNCHANGED <<apiVars, checkerVars, ongoing_matches, writes, challenges, moneyVars,
                   emitted, callbacks, lastCallback, gatewayVars, clientVars, sweepVars,
                   lastCall, timing, rq, webhook>>

\* the handler of the case found, on the rows as they are by now
SweepActs(id) ==
    /\ sweep.pc = "read"
    /\ \A u \in Users : balance[u] < MaxSweeps * challenges[id].bet_amount
    /\ sweep' = Found("idle", "open", 0)
    /\ IF sweep.case = "partial"
       THEN LET paid == payments[sweep.paid]
                out == processRefund(Money(payments, balance, providerCalls),
                                     paid.user_id, paid.amount, id)
            IN /\ balance' = out.balance
               /\ providerCalls' = out.providerCalls
               /\ IF out.done
                  THEN /\ payments' = CancelOpen(out.payments, id)
                       /\ challenges' = [challenges EXCEPT ![id] = Cancelled(@)]
                  ELSE /\ payments' = out.payments
                       /\ UNCHANGED challenges
       ELSE IF sweep.case = "full"
       THEN /\ challenges' = [challenges EXCEPT ![id] = Cancelled(@)]
            /\ payments' = CancelOpen(payments, id)
            /\ UNCHANGED <<balance, providerCalls>>
       ELSE IF sweep.case = "paid"
       THEN /\ challenges' = [challenges EXCEPT ![id].payment_status = "completed"]
            /\ UNCHANGED <<payments, balance, providerCalls>>
       ELSE UNCHANGED <<challenges, payments, balance, providerCalls>>
    /\ UNCHANGED <<apiVars, checkerVars, ongoing_matches, writes, emitted, callbacks,
                   lastCallback, gatewayVars, clientVars, sweepVars, lastCall, timing, rq, webhook>>

NextRace ==
    \/ \E u \in Users, accepted \in BOOLEAN : InitiateDeposit(u, Phone, "c1", accepted)
    \/ \E payload \in Payloads : Sendable(payload) /\ HandleCallback(payload)
    \/ \E id \in ChallengeIds : SweepReads(id)
    \/ \E id \in ChallengeIds : SweepActs(id)
    \/ sweep.pc = "idle" /\ Tick

SpecRace == InitPay /\ [][NextRace]_vars

\* the refunds user u has had for challenge id: credits of the stake to the
\* balance below ten shillings, withdrawal rows from there on
RefundsOf(rows, bal, u, id) ==
    IF challenges[id].bet_amount < KES(10)
    THEN bal[u] \div challenges[id].bet_amount
    ELSE Cardinality({i \in DOMAIN rows : /\ rows[i].user_id = u
                                          /\ rows[i].challenge_id = id
                                          /\ rows[i].transaction_type = "withdrawal"})

\* C33: whenever the sweeper cancels a challenge, every deposit of the
\* challenge that is completed by then, also one that a callback completed
\* while the sweep was running, has been refunded to its user.
CancelledMeansRefunded ==
    [][\A id \in ChallengeIds :
          (challenges[id].status # "cancelled" /\ challenges'[id].status = "cancelled")
             => \A u \in Users :
                   RefundsOf(payments', balance', u, id)
                      >= Cardinality({i \in CompletedDeposits(payments', id) :
                                         payments'[i].user_id = u})]_vars


(***************************************************************************)
(* The payment queue when the provider may keep silent                     *)
(***************************************************************************)
\* axios.post(url, body, {headers}) carries no timeout: the provider has
\* taken the request of j and sends no response, so the await of taskFn in
\* _processQueue() does not return
ProviderSilent(j) ==
    /\ j \in running /\ j.pc = "post"
    /\ running' = (running \ {j}) \cup {[j EXCEPT !.pc = "hung"]}
    /\ UNCHANGED <<apiVars, checkerVars, ongoing_matches, writes, challenges, payments,
                   balance, providerCalls, emitted, callbacks, lastCallback, sweepVars,
                   extraVars, clientVars, payQueue, processing, tokens, enqueued, issued,
                   returned>>

NextQueue ==
    \/ NextGateway
    \/ \E j \in Jobs : ProviderSilent(j)

\* every step of the queue that can be taken is taken in the end: the token
\* service and a provider that has not gone silent do answer
FairQueue ==
    /\ WF_vars(\E j \in Jobs, ok \in BOOLEAN : TokenRefreshed(j, ok))
    /\ WF_vars(\E j \in Jobs, ok \in BOOLEAN : ProviderAnswered(j, ok))

SpecQueue == InitHappy /\ [][NextQueue]_vars /\ FairQueue

\* the same queue with a provider that always answers, with success or error
SpecQueueAnswered == InitHappy /\ [][NextGateway]_vars /\ FairQueue

\* C34: every task handed to enqueueRequest is resolved or rejected in the
\* end, whatever the provider does; a task that fails does not keep the
\* tasks queued behind it from being run.
QueueProgress ==
    \A r \in 1..MaxTasks :
       (\E i \in DOMAIN enqueued : enqueued[i] = r) ~> (r \in DOMAIN returned)


(***************************************************************************)
(* The adaptive delay between requests to chess.com                        *)
(***************************************************************************)
\* consecutiveSuccesses is counted up to here; the code only asks whether it
\* is above 5
MaxStreak == 7

\* milliseconds, whole: Math.max(1500, requestDelay * 0.95)
relaxed(requestDelay) == Max(1500, (requestDelay * 95) \div 100)

\* Math.min(10000, requestDelay * 2)
doubled(requestDelay) == Min(10000, requestDelay * 2)

\* Math.min(5000, requestDelay * 1.2)
increased(requestDelay) == Min(5000, (requestDelay * 12) \div 10)

\* processQueue() after this.api(item.config) has resolved or thrown: the
\* adaptive timing
RequestEnds(how) ==
    /\ timing' =
          IF how = "success"
          THEN LET streak == timing.consecutiveSuccesses + 1
               IN  Timing(IF streak > 5 /\ timing.requestDelay > 1500
                          THEN relaxed(timing.requestDelay)
                          ELSE timing.requestDelay,
                          Min(streak, MaxStreak), how)
          ELSE IF how = "rateLimit"
          THEN Timing(doubled(timing.requestDelay), 0, how)
          ELSE Timing(increased(timing.requestDelay), 0, how)
    /\ UNCHANGED <<apiVars, checkerVars, ongoing_matches, writes, challenges, moneyVars,
                   emitted, callbacks, lastCallback, gatewayVars, clientVars, sweepVars,
                   lastCall, sweep, rq, webhook>>

NextTiming == \E how \in {"success", "rateLimit", "error"} : RequestEnds(how)

SpecTiming == InitPay /\ [][NextTiming]_vars

\* C35: a failure other than a rate limit raises the delay by 20%, to 5s at
\* most, a 410/429 doubles it, to 10s at most, and no failure leaves the
\* delay smaller than it was.
BackoffOnFailure ==
    [][/\ timing'.last = "error"
            => timing'.requestDelay = Min(5000, (timing.requestDelay * 12) \div 10)
       /\ timing'.last = "rateLimit"
            => timing'.requestDelay = Min(10000, timing.requestDelay * 2)
       /\ timing'.last \in {"error", "rateLimit"}
            => timing'.requestDelay >= timing.requestDelay]_vars

\* C36: a success that brings the streak to five or more relaxes the delay
\* by 5%, not below 1.5s; a shorter streak leaves the delay alone, a failure
\* resets the streak, and the delay stays between 1.5s and 10s.
RelaxationOnSuccess ==
    [][/\ (timing'.last = "success" /\ timing.consecutiveSuccesses + 1 >= 5)
            => timing'.requestDelay = Max(1500, (timing.requestDelay * 95) \div 100)
       /\ (timing'.last = "success" /\ timing.consecutiveSuccesses + 1 < 5)
            => timing'.requestDelay = timing.requestDelay
       /\ timing'.last \in {"error", "rateLimit"} => timing'.consecutiveSuccesses = 0
       /\ timing'.requestDelay >= 1500 /\ timing'.requestDelay <= 10000]_vars


(***************************************************************************)
(* The response cache                                                      *)
(***************************************************************************)
\* the promise of caller c is settled in this step, in the way why
Settled(c, why) == reqState'[c] # reqState[c] /\ reqState'[c].why = why

\* C37: an entry is stored only with the response of a successful GET
\* request, under the key of that request; request() answers from the cache
\* only with an entry younger than the TTL stored with it, and otherwise
\* queues the request for a real call; a request that failed is not sent
\* again by the client.
ResponseCache ==
    [][/\ \A u \in Urls :
             (cache'[u].present /\ cache'[u] # cache[u] /\ cache'[u].age = 0)
                => /\ cur.phase = "http" /\ cur.get /\ cur.key = u
                   /\ reqState'[cur.caller] = Resolved(cache'[u].response, "http")
       /\ \A c \in Callers :
             /\ Settled(c, "cache")
                  => \E u \in Urls : /\ cache[u].present
                                     /\ cache[u].age < cache[u].ttl
                                     /\ cache[u].response = reqState'[c].val
             /\ (reqState[c].st # "waiting" /\ reqState'[c].st = "waiting")
                  => \/ cur'.caller = c /\ cur'.phase \in {"wait", "http"}
                     \/ \E i \in 1..Len(queue') : queue'[i].caller = c
             /\ (Settled(c, "error") \/ Settled(c, "http429"))
                  => /\ cur'.caller # c
                     /\ \A i \in 1..Len(queue') : queue'[i].caller # c]_vars

\* a caller has been answered from the cache; the entry of the stats has
\* since outlived its TTL and was dropped by a request that now waits for a
\* real call
ServedThenExpired ==
    /\ \E c \in Others : reqState[c].why = "cache"
    /\ ~cache[UrlStats].present
    /\ cur.key = UrlStats /\ cur.get
    /\ reqState[cur.caller].st = "waiting"


(***************************************************************************)
(* The status mapping of the webhook, over the statuses and messages the   *)
(* provider sends                                                          *)
(***************************************************************************)
ProviderStatuses ==
    {Null, "5008", "SUCCESS", "Completed", "FAILED", "ERROR", "PENDING", "PROCESSING",
     "QUEUED"}
ProviderMessages == {NoMessage, [text |-> "Request cancelled by user", id |-> 0]}
MappingPayloads ==
    {Payload(Oid(FALSE, i), ref, status, message) :
        i \in 1..MaxDeposits, ref \in BOOLEAN, status \in ProviderStatuses,
        message \in ProviderMessages}

NextMapping ==
    \/ \E u \in Users, accepted \in BOOLEAN : InitiateDeposit(u, Phone, "c1", accepted)
    \/ \E payload \in MappingPayloads : Sendable(payload) /\ HandleCallback(payload)

SpecMapping == InitPay /\ [][NextMapping]_vars

\* a word of words occurs in the lower-cased text
KeywordIn(text, words) == text # Null /\ \E w \in words : Includes(LowerText(text), w)

\* the status the payload is to be mapped to, "any" where nothing is said
MappedTo(p) ==
    IF p.transactionReference THEN "completed"
    ELSE IF p.status \in {"5008", "5000", "5001"} THEN "failed"
    ELSE IF KeywordIn(p.status, {"success", "complete"}) THEN "completed"
    ELSE IF \/ KeywordIn(p.status, {"fail", "error"})
            \/ p.status # Null /\ KeywordIn(p.message.text,
                                            {"cancelled", "failed", "error", "insufficient"})
    THEN "failed"
    ELSE IF KeywordIn(p.status, {"pend", "processing"}) THEN "processing"
    ELSE "any"

Letters == {"DEP", "WTH", "PAY", "REF", "BAL", "REFUND", "PAYOUT", "WALLET", "CREDIT",
            "Payment", "failed", "Failed", "Request", "cancelled", "by", "user"}
DigitRuns == {"1", "2", "17", "1003"}

\* a || b
OrElse(a, b) == IF a # NoText THEN a ELSE b

\* requestId.match(/^\d+\|(.+)$/): the group, NoText when there is no match
prefixMatch(requestId) ==
    IF Len(requestId) >= 3 /\ requestId[1] \in DigitRuns /\ requestId[2] = "|"
    THEN SubSeq(requestId, 3, Len(requestId))
    ELSE NoText

\* [A-Z]+_\d+_\d+_\d+ with the i flag matches text from token i on
TokenAt(text, i) ==
    /\ i >= 1 /\ i + 6 <= Len(text)
    /\ text[i] \in Letters
    /\ text[i + 1] = "_" /\ text[i + 2] \in DigitRuns
    /\ text[i + 3] = "_" /\ text[i + 4] \in DigitRuns
    /\ text[i + 5] = "_" /\ text[i + 6] \in DigitRuns

First(S) == CHOOSE i \in S : \A j \in S : i <= j

\* text.match(/\|([A-Z]+_\d+_\d+_\d+)\s*[:]/i)
afterPipe(text) ==
    LET at == {i \in 1..Len(text) :
                  /\ text[i] = "|" /\ TokenAt(text, i + 1)
                  /\ \/ i + 8 <= Len(text) /\ text[i + 8] = ":"
                     \/ i + 9 <= Len(text) /\ text[i + 8] = " " /\ text[i + 9] = ":"}
    IN  IF at = {} THEN NoText ELSE SubSeq(text, First(at) + 1, First(at) + 7)

\* text.match(/([A-Z]+_\d+_\d+_\d+)/i)
anywhere(text) ==
    LET at == {i \in 1..Len(text) : TokenAt(text, i)}
    IN  IF at = {} THEN NoText ELSE SubSeq(text, First(at), First(at) + 6)

\* an extraction that keeps the provider's prefix
extractRequestIdKeepPrefix(body) ==
    LET requestId == OrElse(body.originatorRequestId, body.requestId)
        text == OrElse(body.message, body.description)
    IN  IF requestId # NoText THEN requestId
        ELSE OrElse(afterPipe(text), anywhere(text))

\* extractRequestId(payload) on the text; NoText stands for null
extractRequestIdText(body) ==
    LET requestId == OrElse(body.originatorRequestId, body.requestId)
        text == OrElse(body.message, body.description)
    IN  IF requestId # NoText
        THEN OrElse(prefixMatch(requestId), requestId)
        ELSE OrElse(afterPipe(text), anywhere(text))

\* the request ids written to payments: DEP_c_u_t, WTH_c_u_t, PAY_c_u_t,
\* REF_c_u_t, BAL_c_u_t, REFUND_c_u_t and PAYOUT_c_u_t, and the wallet
\* credits REFUND_WALLET_c_u_t and WALLET_CREDIT_t_u
Numbered(kind, a, b, c) == kind \o <<"_", a, "_", b, "_", c>>
ProviderKinds == {<<"DEP">>, <<"WTH">>, <<"PAY">>, <<"REF">>, <<"BAL">>, <<"REFUND">>,
                  <<"PAYOUT">>}
ProviderRequestIds ==
    {Numbered(kind, c, u, "17") : kind \in ProviderKinds, c \in {"1", "2"}, u \in {"1", "2"}}
WalletRequestIds ==
    {Numbered(<<"REFUND", "_", "WALLET">>, c, u, "17") : c \in {"1", "2"}, u \in {"1", "2"}}
       \cup {<<"WALLET", "_", "CREDIT", "_", "17", "_", u>> : u \in {"1", "2"}}
StoredRequestIds == ProviderRequestIds \cup WalletRequestIds

\* the bodies a sender builds from the request id rid: the id in the
\* identifier field, bare or behind the prefix 1003|, or in the text of
\* the message or the description
BodiesFrom(rid) ==
    LET prefixed == <<"1003", "|">> \o rid
        reply == prefixed \o <<" ", ":", " ", "Failed">>
        prose == <<"Payment", " ">> \o rid \o <<" ", "failed">>
    IN  {Body(rid, NoText, NoText, NoText, rid),
         Body(prefixed, NoText, NoText, NoText, rid),
         Body(NoText, rid, NoText, NoText, rid),
         Body(NoText, NoText, reply, NoText, rid),
         Body(NoText, NoText, prose, NoText, rid),
         Body(NoText, NoText, NoText, reply, rid)}
CancelledByUser == <<"Request", " ", "cancelled", " ", "by", " ", "user">>
Bodies ==
    UNION {BodiesFrom(rid) : rid \in StoredRequestIds}
       \cup {NoBody, Body(NoText, NoText, CancelledByUser, NoText, NoText)}

\* handleCallback: const originatorRequestId = this.extractRequestId(req.body)
Extracts(body) ==
    /\ webhook' = [body |-> body, id |-> extractRequestIdText(body)]
    /\ UNCHANGED <<apiVars, checkerVars, ongoing_matches, writes, challenges, payments,
                   balance, providerCalls, emitted, callbacks, lastCallback, gatewayVars,
                   clientVars, sweepVars, lastCall, sweep, timing, rq>>

NextExtract == \E body \in Bodies : Extracts(body)
SpecExtract == InitPay /\ [][NextExtract]_vars

\* the identifier field of the body, and whether it has the form N|X
Identifier(body) == OrElse(body.originatorRequestId, body.requestId)
Prefixed(t) == Len(t) >= 3 /\ t[1] \in DigitRuns /\ t[2] = "|"

\* what the claim says of the body the extraction was given
Repaired(rids) ==
    LET body == webhook.body
        field == Identifier(body)
    IN  /\ field # NoText /\ Prefixed(field)
              => webhook.id = SubSeq(field, 3, Len(field))
        /\ field # NoText /\ ~Prefixed(field) => webhook.id = field
        /\ body.fromId \in rids => webhook.id = body.fromId
        /\ field = NoText /\ body.fromId = NoText => webhook.id = NoText

\* C39: a prefixed identifier N|X resolves to X, an identifier without
\* prefix to itself, an absent identifier to the request id in the text of
\* the message and to null when there is none; a body built from the
\* request_id of a payment resolves to that request_id
CorrelationRepair == Repaired(StoredRequestIds)

\* the same for the request ids that are handed to the provider
CorrelationRepairProvider == Repaired(ProviderRequestIds)

\* a prefixed identifier has been stripped
PrefixStripped ==
    /\ Prefixed(webhook.body.originatorRequestId)
    /\ webhook.id = webhook.body.fromId
    /\ webhook.id \in ProviderRequestIds


(***************************************************************************)
(* RequestQueue                                                            *)
(***************************************************************************)
\* jobs added to the queue
MaxJobs == 3
\* options.maxConcurrent of the queue of the model
maxConcurrent == 2
\* this.retryAttempts and this.maxQueueSize as the constructor defaults them
retryAttempts == 3
maxQueueSize == 1000

\* job ids as the callers make them, `CB_${id}_${Date.now()}`: two calls for
\* one request in the same millisecond make the same id
JobIds == {"CB_1_17", "CB_2_17"}
Priorities == {2, 3}

\* the job object of add(); n tells the objects apart
QueuedJob(n, id, priority, attempts, maxAttempts) ==
    [n |-> n, id |-> id, priority |-> priority, attempts |-> attempts,
     maxAttempts |-> maxAttempts]

\* this.queue.sort((a, b) => b.options.priority - a.options.priority)
SortByPriority(q) ==
    SelectSeq(q, LAMBDA j : j.priority = 3) \o SelectSeq(q, LAMBDA j : j.priority = 2)
       \o SelectSeq(q, LAMBDA j : j.priority = 1)

\* process(): up to the await of the handler
process(q) ==
    IF Cardinality(q.processing) >= maxConcurrent \/ q.queue = <<>>
    THEN q
    ELSE LET sorted == SortByPriority(q.queue)
             job == Head(sorted)
         IN  [q EXCEPT !.queue = Tail(sorted),
                       !.processing = @ \cup {job.id},
                       !.running = @ \cup {job},
                       !.invoked[job.n] = @ + 1]

\* add(jobId, handler, data, options)
AddJob(jobId, priority) ==
    /\ rq.added < MaxJobs
    /\ Len(rq.queue) < maxQueueSize
    /\ LET job == QueuedJob(rq.added + 1, jobId, priority, 0, retryAttempts)
       IN  rq' = process([rq EXCEPT !.queue = Append(@, job),
                                    !.added = @ + 1,
                                    !.invoked = Append(@, 0)])
    /\ UNCHANGED <<apiVars, checkerVars, ongoing_matches, writes, challenges, payments,
                   balance, providerCalls, emitted, callbacks, lastCallback, gatewayVars,
                   clientVars, sweepVars, lastCall, sweep, timing, webhook>>

\* process() after the await: the handler resolved
HandlerResolves(job) ==
    /\ job \in rq.running
    /\ rq' = [rq EXCEPT !.running = @ \ {job},
                        !.processing = @ \ {job.id},
                        !.completed = Append(@, job),
                        !.immediates = @ + 1]
    /\ UNCHANGED <<apiVars, checkerVars, ongoing_matches, writes, challenges, payments,
                   balance, providerCalls, emitted, callbacks, lastCallback, gatewayVars,
                   clientVars, sweepVars, lastCall, sweep, timing, webhook>>

\* process() after the await: the handler threw
HandlerRejects(job) ==
    /\ job \in rq.running
    /\ LET tried == [job EXCEPT !.attempts = @ + 1]
           retry == tried.attempts < tried.maxAttempts
       IN  rq' = [rq EXCEPT !.running = @ \ {job},
                            !.processing = @ \ {job.id},
                            !.timers = IF retry THEN @ \cup {tried} ELSE @,
                            !.failed = IF retry THEN @ ELSE Append(@, tried),
                            !.immediates = @ + 1]
    /\ UNCHANGED <<apiVars, checkerVars, ongoing_matches, writes, challenges, payments,
                   balance, providerCalls, emitted, callbacks, lastCallback, gatewayVars,
                   clientVars, sweepVars, lastCall, sweep, timing, webhook>>

\* setTimeout(() => { this.queue.push(job); this.process(); }, this.retryDelay)
RetryTimerFires(job) ==
    /\ job \in rq.timers
    /\ rq' = process([rq EXCEPT !.timers = @ \ {job}, !.queue = Append(@, job)])
    /\ UNCHANGED <<apiVars, checkerVars, ongoing_matches, writes, challenges, payments,
                   balance, providerCalls, emitted, callbacks, lastCallback, gatewayVars,
                   clientVars, sweepVars, lastCall, sweep, timing, webhook>>

\* setImmediate(() => this.process())
ImmediateRuns ==
    /\ rq.immediates > 0
    /\ rq' = process([rq EXCEPT !.immediates = @ - 1])
    /\ UNCHANGED <<apiVars, checkerVars, ongoing_matches, writes, challenges, payments,
                   balance, providerCalls, emitted, callbacks, lastCallback, gatewayVars,
                   clientVars, sweepVars, lastCall, sweep, timing, webhook>>

\* the job objects the queue holds anywhere
JobsOf(q) ==
    {q.queue[i] : i \in DOMAIN q.queue} \cup q.running \cup q.timers
       \cup {q.completed[i] : i \in DOMAIN q.completed}
       \cup {q.failed[i] : i \in DOMAIN q.failed}

NextRequestQueue ==
    \/ \E id \in JobIds, priority \in Priorities : AddJob(id, priority)
    \/ \E job \in rq.running : HandlerResolves(job)
    \/ \E job \in rq.running : HandlerRejects(job)
    \/ \E job \in rq.timers : RetryTimerFires(job)
    \/ ImmediateRuns

SpecRequestQueue == InitPay /\ [][NextRequestQueue]_vars

\* the callers never make one id twice
NextRequestQueueUnique ==
    \/ \E id \in JobIds \cup {"CB_1_18"}, priority \in Priorities :
          /\ \A job \in JobsOf(rq) : job.id # id
          /\ AddJob(id, priority)
    \/ \E job \in rq.running : HandlerResolves(job)
    \/ \E job \in rq.running : HandlerRejects(job)
    \/ \E job \in rq.timers : RetryTimerFires(job)
    \/ ImmediateRuns

SpecRequestQueueUnique == InitPay /\ [][NextRequestQueueUnique]_vars

\* how often job n stands in the list
Times(list, n) == Cardinality({i \in DOMAIN list : list[i].n = n})

\* C40: the handler of a job is invoked at most maxAttempts times; a job is
\* recorded completed at most once, after an attempt that succeeded, or
\* failed at most once, after maxAttempts attempts that failed, never both;
\* and at most maxConcurrent handlers are running at one time
RetryBound ==
    /\ \A n \in 1..rq.added :
          /\ rq.invoked[n] <= retryAttempts
          /\ Times(rq.completed, n) + Times(rq.failed, n) <= 1
          /\ \A i \in DOMAIN rq.failed :
                rq.failed[i].n = n
                   => rq.failed[i].attempts = retryAttempts /\ rq.invoked[n] = retryAttempts
          /\ \A i \in DOMAIN rq.completed :
                rq.completed[i].n = n => rq.invoked[n] = rq.completed[i].attempts + 1
    /\ Cardinality(rq.running) <= maxConcurrent

\* a job has failed for good while two others are running
FailedForGood ==
    /\ rq.failed # <<>>
    /\ Cardinality(rq.running) = maxConcurrent

====
